---- MODULE Spec2Model ----
(***************************************************************************)
(* Model of the person-resolution engine of mcp-server-osint               *)
(* (PersonResolver, src/core/resolver.ts).                                 *)
(*                                                                         *)
(* Representation.                                                         *)
(*  - A string on which the code does character work (names, city, state,  *)
(*    country) is a sequence of one-character strings.  An optional string *)
(*    field that is absent is the empty sequence: every use in the         *)
(*    resolver (`x && y`, `x || ''`, filter(Boolean)) treats undefined and *)
(*    '' alike.                                                            *)
(*  - Numbers are exact rationals kept as integers over a fixed            *)
(*    denominator: similarity terms in 1/SimOne, a location score in       *)
(*    1/LocOne, a total similarity in 1/ScoreOne, a confidence in          *)
(*    1/ConfOne.  IEEE rounding of the last bit is not modelled.           *)
(*  - An object reference into the input array is the position of the      *)
(*    object in that array (1-based).                                      *)
(***************************************************************************)
EXTENDS Integers, Sequences, FiniteSets, TLC

VARIABLES rawEntities, query, phase, clusters, resolved, out, name1, name2, nameSim,
          similarity, calls, now, period, rateLimits, passTimes, validation, sanitized,
          connectors, cursor, awaiting, sourcesQueried, trace, searchEvents, auditLog,
          response, connector, searches, requestTimes

vars == <<rawEntities, query, phase, clusters, resolved, out, name1, name2, nameSim,
          similarity, calls, now, period, rateLimits, passTimes, validation, sanitized,
          connectors, cursor, awaiting, sourcesQueried, trace, searchEvents, auditLog,
          response, connector, searches, requestTimes>>

resolverVars == <<rawEntities, query, phase, clusters, resolved, out>>

nameVars == <<name1, name2, nameSim, similarity>>

guardVars == <<now, period, rateLimits, passTimes, validation>>

\* the connector loop of one person_search, and what the call leaves behind
searchVars == <<connectors, cursor, awaiting, sourcesQueried, trace, searchEvents,
                auditLog, response>>

\* one connector object, the searchPerson calls under way on it and the
\* times of its latest requests
connectorVars == <<connector, searches, requestTimes>>

serverVars == <<calls, guardVars, sanitized, searchVars, connectorVars>>

(***************************************************************************)
(* Bounds of the model                                                     *)
(***************************************************************************)
MaxEntities == 3

MaxNameLen == 3

MaxResultsBound == 2

(***************************************************************************)
(* Units                                                                   *)
(***************************************************************************)
\* 1.0 of a similarity term (name, profile, source, city)
SimOne == 60

\* 1.0 of a location score: the city term is citySim * 0.2
LocOne == 600

\* 1.0 of the weighted total
ScoreOne == 6000

\* 1.0 of a confidence
ConfOne == 6000

\* the value of an absent optional number (undefined)
Absent == -1

Min(a, b) == IF a < b THEN a ELSE b

Max(a, b) == IF a > b THEN a ELSE b

(***************************************************************************)
(* Strings                                                                 *)
(***************************************************************************)
UpperChars == <<"A","B","C","D","E","F","G","H","I","J","K","L","M","N","O","P","Q","R","S","T","U","V","W","X","Y","Z">>

LowerChars == <<"a","b","c","d","e","f","g","h","i","j","k","l","m","n","o","p","q","r","s","t","u","v","w","x","y","z">>

\* String.prototype.toLowerCase, one character
toLowerChar(c) ==
  IF \E i \in 1..26 : UpperChars[i] = c
  THEN LowerChars[CHOOSE i \in 1..26 : UpperChars[i] = c]
  ELSE c

\* String.prototype.toLowerCase
toLowerCase(s) == [i \in 1..Len(s) |-> toLowerChar(s[i])]

\* the characters matched by \s
IsSpace(c) == c \in {" ", "\t", "\n"}

\* String.prototype.trim
trim(s) ==
  IF \A i \in 1..Len(s) : IsSpace(s[i]) THEN <<>>
  ELSE LET first == CHOOSE i \in 1..Len(s) :
                      /\ ~IsSpace(s[i])
                      /\ \A k \in 1..(i-1) : IsSpace(s[k])
           last == CHOOSE i \in 1..Len(s) :
                      /\ ~IsSpace(s[i])
                      /\ \A k \in (i+1)..Len(s) : IsSpace(s[k])
       IN SubSeq(s, first, last)

\* String.prototype.includes: t occurs in s as a contiguous substring
includes(s, t) ==
  \E start \in 1..(Len(s) - Len(t) + 1) : SubSeq(s, start, start + Len(t) - 1) = t

\* String.prototype.split(/\s+/): an empty string gives one empty token,
\* leading or trailing white space gives an empty first or last token
RECURSIVE split(_)
split(s) ==
  IF \A i \in 1..Len(s) : ~IsSpace(s[i]) THEN <<s>>
  ELSE LET i == CHOOSE k \in 1..Len(s) :
                  /\ IsSpace(s[k])
                  /\ \A m \in 1..(k-1) : ~IsSpace(s[m])
           rest == SubSeq(s, i + 1, Len(s))
           j == IF \A k \in 1..Len(rest) : IsSpace(rest[k]) THEN Len(rest) + 1
                ELSE CHOOSE k \in 1..Len(rest) :
                       /\ ~IsSpace(rest[k])
                       /\ \A m \in 1..(k-1) : IsSpace(rest[m])
       IN <<SubSeq(s, 1, i - 1)>> \o split(SubSeq(rest, j, Len(rest)))

DigitChars == <<"0","1","2","3","4","5","6","7","8","9">>

\* the decimal digits a template literal prints for a number
RECURSIVE decimal(_)
decimal(i) ==
  IF i < 10 THEN <<DigitChars[i + 1]>>
  ELSE decimal(i \div 10) \o <<DigitChars[(i % 10) + 1]>>

\* Array.prototype.includes
arrayIncludes(arr, x) == \E i \in 1..Len(arr) : arr[i] = x

\* Array.prototype.filter
filter(arr, Keep(_)) == SelectSeq(arr, Keep)

(***************************************************************************)
(* nameSimilarity                                                          *)
(***************************************************************************)
\* the substring rule with the score of an exact match
nameSimilarity_SubstringIsExact(n1raw, n2raw) ==
  LET n1 == trim(toLowerCase(n1raw))
      n2 == trim(toLowerCase(n2raw))
      tokens1 == split(n1)
      tokens2 == split(n2)
      commonTokens == filter(tokens1, LAMBDA t : arrayIncludes(tokens2, t))
      totalTokens == Max(Len(tokens1), Len(tokens2))
  IN IF n1 = n2 THEN SimOne
     ELSE IF includes(n1, n2) \/ includes(n2, n1) THEN SimOne
     ELSE IF totalTokens = 0 THEN 0
     ELSE (Len(commonTokens) * SimOne) \div totalTokens

\* the names compared as given, without lower-casing
nameSimilarity_CaseSensitive(n1raw, n2raw) ==
  LET n1 == trim(n1raw)
      n2 == trim(n2raw)
      tokens1 == split(n1)
      tokens2 == split(n2)
      commonTokens == filter(tokens1, LAMBDA t : arrayIncludes(tokens2, t))
      totalTokens == Max(Len(tokens1), Len(tokens2))
  IN IF n1 = n2 THEN SimOne
     ELSE IF includes(n1, n2) \/ includes(n2, n1) THEN (SimOne * 8) \div 10
     ELSE IF totalTokens = 0 THEN 0
     ELSE (Len(commonTokens) * SimOne) \div totalTokens

nameSimilarity(n1raw, n2raw) ==
  LET n1 == trim(toLowerCase(n1raw))
      n2 == trim(toLowerCase(n2raw))
      tokens1 == split(n1)
      tokens2 == split(n2)
      commonTokens == filter(tokens1, LAMBDA t : arrayIncludes(tokens2, t))
      totalTokens == Max(Len(tokens1), Len(tokens2))
  IN IF n1 = n2 THEN SimOne
     ELSE IF includes(n1, n2) \/ includes(n2, n1) THEN (SimOne * 8) \div 10
     ELSE IF totalTokens = 0 THEN 0
     ELSE (Len(commonTokens) * SimOne) \div totalTokens

(***************************************************************************)
(* The other similarity terms                                              *)
(***************************************************************************)
SetMax(S) == CHOOSE x \in S : \A y \in S : y <= x

\* new Set(arr.map(f)): the set of the values of a field
SetOf(arr, F(_)) == {F(arr[i]) : i \in 1..Len(arr)}

\* the body of the two nested loops of locationSimilarity: the score of one
\* pair of locations
locationPairSim(loc1, loc2) ==
  LET countryPart == IF /\ loc1.country # <<>> /\ loc2.country # <<>>
                        /\ toLowerCase(loc1.country) = toLowerCase(loc2.country)
                     THEN (LocOne * 5) \div 10 ELSE 0
      statePart == IF /\ loc1.state # <<>> /\ loc2.state # <<>>
                      /\ toLowerCase(loc1.state) = toLowerCase(loc2.state)
                   THEN (LocOne * 3) \div 10 ELSE 0
      cityPart == IF loc1.city # <<>> /\ loc2.city # <<>>
                  THEN (nameSimilarity(loc1.city, loc2.city) * (LocOne \div SimOne) * 2) \div 10
                  ELSE 0
  IN countryPart + statePart + cityPart

\* an unknown location counted as no match
locationSimilarity_UnknownIsNoMatch(locs1, locs2) ==
  SetMax({0} \cup {locationPairSim(locs1[i], locs2[j]) :
                     i \in 1..Len(locs1), j \in 1..Len(locs2)})

locationSimilarity(locs1, locs2) ==
  IF Len(locs1) = 0 \/ Len(locs2) = 0 THEN LocOne \div 2
  ELSE SetMax({0} \cup {locationPairSim(locs1[i], locs2[j]) :
                          i \in 1..Len(locs1), j \in 1..Len(locs2)})

profileSimilarity(profiles1, profiles2) ==
  IF Len(profiles1) = 0 \/ Len(profiles2) = 0 THEN 0
  ELSE LET platforms1 == SetOf(profiles1, LAMBDA p : p.platform)
           platforms2 == SetOf(profiles2, LAMBDA p : p.platform)
           commonPlatforms == platforms1 \cap platforms2
           totalPlatforms == Cardinality(platforms1 \cup platforms2)
       IN IF totalPlatforms = 0 THEN 0
          ELSE (Cardinality(commonPlatforms) * SimOne) \div totalPlatforms

\* two entities without sources taken to agree on their sources
sourceSimilarity_EmptySetsEqual(sources1, sources2) ==
  LET sourceTypes1 == SetOf(sources1, LAMBDA s : s.type)
      sourceTypes2 == SetOf(sources2, LAMBDA s : s.type)
      common == Cardinality(sourceTypes1 \cap sourceTypes2)
      total == Cardinality(sourceTypes1 \cup sourceTypes2)
  IN IF total > 0 THEN (common * SimOne) \div total ELSE SimOne

sourceSimilarity(sources1, sources2) ==
  LET sourceTypes1 == SetOf(sources1, LAMBDA s : s.type)
      sourceTypes2 == SetOf(sources2, LAMBDA s : s.type)
      common == Cardinality(sourceTypes1 \cap sourceTypes2)
      total == Cardinality(sourceTypes1 \cup sourceTypes2)
  IN IF total > 0 THEN (common * SimOne) \div total ELSE 0

(***************************************************************************)
(* calculateSimilarity: score and weight are accumulated term by term; the *)
(* weights are kept in tenths                                              *)
(***************************************************************************)
W_NAME == 4

W_LOCATION == 3

W_PROFILE == 2

W_SOURCE == 1

nameTerm(e1, e2) == nameSimilarity(e1.name, e2.name)

locationTerm(e1, e2) == locationSimilarity(e1.locations, e2.locations)

profileTerm(e1, e2) == profileSimilarity(e1.profiles, e2.profiles)

sourceTerm(e1, e2) == sourceSimilarity(e1.sources, e2.sources)

\* the location term left out, and the weights renormalised, when either
\* entity has no location
calculateSimilarity_SkipsUnknownLocation(e1, e2) ==
  LET known == Len(e1.locations) > 0 /\ Len(e2.locations) > 0
      score == (nameTerm(e1, e2) * (ScoreOne \div SimOne) * W_NAME) \div 10
               + (IF known
                  THEN (locationTerm(e1, e2) * (ScoreOne \div LocOne) * W_LOCATION) \div 10
                  ELSE 0)
               + (profileTerm(e1, e2) * (ScoreOne \div SimOne) * W_PROFILE) \div 10
               + (sourceTerm(e1, e2) * (ScoreOne \div SimOne) * W_SOURCE) \div 10
      weight == W_NAME + (IF known THEN W_LOCATION ELSE 0) + W_PROFILE + W_SOURCE
  IN IF weight > 0 THEN (score * 10) \div weight ELSE 0

calculateSimilarity(e1, e2) ==
  LET score == (nameTerm(e1, e2) * (ScoreOne \div SimOne) * W_NAME) \div 10
               + (locationTerm(e1, e2) * (ScoreOne \div LocOne) * W_LOCATION) \div 10
               + (profileTerm(e1, e2) * (ScoreOne \div SimOne) * W_PROFILE) \div 10
               + (sourceTerm(e1, e2) * (ScoreOne \div SimOne) * W_SOURCE) \div 10
      weight == W_NAME + W_LOCATION + W_PROFILE + W_SOURCE
  IN IF weight > 0 THEN (score * 10) \div weight ELSE 0

\* The failures one evaluation of calculateSimilarity can run into.  A
\* string method called on undefined throws a TypeError; the optional
\* fields on which the location loops call toLowerCase (directly or inside
\* nameSimilarity) are collected as `receivers`: an empty one may be
\* undefined.  A division by 0 yields NaN or Infinity; the denominators of
\* the divisions that are carried out are collected as `divisors`.
locationPairReceivers(loc1, loc2) ==
  (IF loc1.country # <<>> /\ loc2.country # <<>> THEN {loc1.country, loc2.country} ELSE {})
  \cup (IF loc1.state # <<>> /\ loc2.state # <<>> THEN {loc1.state, loc2.state} ELSE {})
  \cup (IF loc1.city # <<>> /\ loc2.city # <<>> THEN {loc1.city, loc2.city} ELSE {})

locationReceivers(locs1, locs2) ==
  UNION {locationPairReceivers(locs1[i], locs2[j]) :
           i \in 1..Len(locs1), j \in 1..Len(locs2)}

\* commonTokens.length / totalTokens, reached after the three early returns
nameDivisors(n1raw, n2raw) ==
  LET n1 == trim(toLowerCase(n1raw))
      n2 == trim(toLowerCase(n2raw))
      totalTokens == Max(Len(split(n1)), Len(split(n2)))
  IN IF n1 = n2 \/ includes(n1, n2) \/ includes(n2, n1) \/ totalTokens = 0 THEN {}
     ELSE {totalTokens}

\* the city comparisons of the location loops
locationDivisors(locs1, locs2) ==
  UNION {IF locs1[i].city # <<>> /\ locs2[j].city # <<>>
         THEN nameDivisors(locs1[i].city, locs2[j].city) ELSE {} :
           i \in 1..Len(locs1), j \in 1..Len(locs2)}

\* commonPlatforms.length / totalPlatforms
profileDivisors(profiles1, profiles2) ==
  LET totalPlatforms == Cardinality(SetOf(profiles1, LAMBDA p : p.platform)
                                    \cup SetOf(profiles2, LAMBDA p : p.platform))
  IN IF Len(profiles1) = 0 \/ Len(profiles2) = 0 \/ totalPlatforms = 0 THEN {}
     ELSE {totalPlatforms}

\* total > 0 ? common / total : 0
sourceDivisors(sources1, sources2) ==
  LET total == Cardinality(SetOf(sources1, LAMBDA s : s.type)
                           \cup SetOf(sources2, LAMBDA s : s.type))
  IN IF total > 0 THEN {total} ELSE {}

\* weight > 0 ? score / weight : 0, in tenths
weightDivisors ==
  LET weight == W_NAME + W_LOCATION + W_PROFILE + W_SOURCE
  IN IF weight > 0 THEN {weight} ELSE {}

receivers(e1, e2) == locationReceivers(e1.locations, e2.locations)

divisors(e1, e2) ==
  nameDivisors(e1.name, e2.name)
  \cup locationDivisors(e1.locations, e2.locations)
  \cup profileDivisors(e1.profiles, e2.profiles)
  \cup sourceDivisors(e1.sources, e2.sources)
  \cup weightDivisors

\* the clustering threshold 0.6
SIMILARITY_THRESHOLD == (ScoreOne * 6) \div 10

(***************************************************************************)
(* clusterEntities: clusters hold references to the input objects, that    *)
(* is positions of the input array                                         *)
(***************************************************************************)
\* the inner loop over j, which does not mark the entities it adds
RECURSIVE scanLater_NoMark(_, _, _, _, _)
scanLater_NoMark(entities, i, j, cluster, processed) ==
  IF j > Len(entities) THEN [cluster |-> cluster, processed |-> processed]
  ELSE IF j \in processed THEN scanLater_NoMark(entities, i, j + 1, cluster, processed)
  ELSE IF calculateSimilarity(entities[i], entities[j]) > SIMILARITY_THRESHOLD
       THEN scanLater_NoMark(entities, i, j + 1, Append(cluster, j), processed)
       ELSE scanLater_NoMark(entities, i, j + 1, cluster, processed)

\* the inner loop over j, which also takes a similarity of exactly 0.6
RECURSIVE scanLater_AtThreshold(_, _, _, _, _)
scanLater_AtThreshold(entities, i, j, cluster, processed) ==
  IF j > Len(entities) THEN [cluster |-> cluster, processed |-> processed]
  ELSE IF j \in processed THEN scanLater_AtThreshold(entities, i, j + 1, cluster, processed)
  ELSE IF calculateSimilarity(entities[i], entities[j]) >= SIMILARITY_THRESHOLD
       THEN scanLater_AtThreshold(entities, i, j + 1, Append(cluster, j), processed \cup {j})
       ELSE scanLater_AtThreshold(entities, i, j + 1, cluster, processed)

\* the inner loop over j = i+1 .. length-1
RECURSIVE scanLater(_, _, _, _, _)
scanLater(entities, i, j, cluster, processed) ==
  IF j > Len(entities) THEN [cluster |-> cluster, processed |-> processed]
  ELSE IF j \in processed THEN scanLater(entities, i, j + 1, cluster, processed)
  ELSE IF calculateSimilarity(entities[i], entities[j]) > SIMILARITY_THRESHOLD
       THEN scanLater(entities, i, j + 1, Append(cluster, j), processed \cup {j})
       ELSE scanLater(entities, i, j + 1, cluster, processed)

\* the outer loop over i
RECURSIVE clusterFrom(_, _, _, _)
clusterFrom(entities, i, acc, processed) ==
  IF i > Len(entities) THEN acc
  ELSE IF i \in processed THEN clusterFrom(entities, i + 1, acc, processed)
  ELSE LET r == scanLater(entities, i, i + 1, <<i>>, processed \cup {i})
       IN clusterFrom(entities, i + 1, Append(acc, r.cluster), r.processed)

clusterEntities(entities) ==
  IF Len(entities) = 0 THEN <<>>
  ELSE clusterFrom(entities, 1, <<>>, {})

\* the entities a cluster refers to
members(entities, cluster) == [k \in 1..Len(cluster) |-> entities[cluster[k]]]

(***************************************************************************)
(* mergeCluster and its helpers                                            *)
(***************************************************************************)
\* x || ''
orEmpty(x) == x

\* Array.prototype.join
RECURSIVE join(_, _)
join(parts, sep) ==
  IF parts = <<>> THEN <<>>
  ELSE IF Len(parts) = 1 THEN parts[1]
  ELSE parts[1] \o sep \o join(Tail(parts), sep)

\* Array.prototype.flatMap over one list-valued field
flatMap(cluster, F(_)) ==
  LET G[i \in 0..Len(cluster)] == IF i = 0 THEN <<>> ELSE G[i-1] \o F(cluster[i])
  IN G[Len(cluster)]

\* arr.filter(x => { if (seen.has(key(x))) return false; seen.add(key(x)); return true })
firstByKey(arr, Key(_)) ==
  LET keep == {i \in 1..Len(arr) : \A k \in 1..(i-1) : Key(arr[k]) # Key(arr[i])}
      F[i \in 0..Len(arr)] ==
        IF i = 0 THEN <<>>
        ELSE IF i \in keep THEN Append(F[i-1], arr[i]) ELSE F[i-1]
  IN F[Len(arr)]

locationKey(loc) ==
  orEmpty(loc.country) \o <<"|">> \o orEmpty(loc.state) \o <<"|">> \o orEmpty(loc.city)

profileKey(profile) == profile.platform \o <<"|">> \o profile.url

sourceKey(source) == source.name \o <<"|">> \o orEmpty(source.url)

deduplicateLocations(locations) == firstByKey(locations, locationKey)

deduplicateProfiles(profiles) == firstByKey(profiles, profileKey)

deduplicateSources(sources) == firstByKey(sources, sourceKey)

\* cluster.reduce((a, b) => a.confidence > b.confidence ? a : b)
RECURSIVE reducePrimary(_, _)
\* the reduction with a.confidence >= b.confidence ? a : b, which keeps the
\* earlier member on a tie
reducePrimary_KeepsEarlierOnTie(a, rest) ==
  LET RECURSIVE scan(_, _)
      scan(x, r) == IF r = <<>> THEN x
                    ELSE scan(IF x.confidence >= Head(r).confidence THEN x ELSE Head(r),
                              Tail(r))
  IN scan(a, rest)

reducePrimary(a, rest) ==
  IF rest = <<>> THEN a
  ELSE reducePrimary(IF a.confidence > Head(rest).confidence THEN a ELSE Head(rest),
                     Tail(rest))

\* cluster.reduce((sum, e) => sum + f(e), 0)
reduceSum(cluster, F(_)) ==
  LET G[i \in 0..Len(cluster)] == IF i = 0 THEN 0 ELSE G[i-1] + F(cluster[i])
  IN G[Len(cluster)]

\* the corroboration boost per further cluster member, in tenths
BOOST_TENTHS == 1

\* a boost of 0.2 per further member
mergedConfidence_DoubleBoost(cluster) ==
  LET n == Len(cluster)
      sum == reduceSum(cluster, LAMBDA e : e.confidence)
  IN Min(ConfOne, (sum * (10 + 2 * (n - 1))) \div (10 * n))

\* the boosted average without Math.min(1.0, ...)
mergedConfidence_NoCap(cluster) ==
  LET n == Len(cluster)
      sum == reduceSum(cluster, LAMBDA e : e.confidence)
  IN (sum * (10 + BOOST_TENTHS * (n - 1))) \div (10 * n)

\* Math.min(1.0, avgConfidence * (1 + 0.1 * (cluster.length - 1))); exact
\* for the cluster sizes that divide ConfOne / 100
mergedConfidence(cluster) ==
  LET n == Len(cluster)
      sum == reduceSum(cluster, LAMBDA e : e.confidence)
  IN Min(ConfOne, (sum * (10 + BOOST_TENTHS * (n - 1))) \div (10 * n))

Factor(kind, n) == [kind |-> kind, n |-> n]

\* the list of factors that join('; ') turns into the explanation
buildCorrelationExplanation(cluster) ==
  LET nameMatches == SetOf(cluster, LAMBDA e : e.name)
      locationCount == reduceSum(cluster, LAMBDA e : Len(e.locations))
      profileCount == reduceSum(cluster, LAMBDA e : Len(e.profiles))
  IN (IF Len(cluster) > 1 THEN <<Factor("found_matches", Len(cluster))>> ELSE <<>>)
     \o (IF Cardinality(nameMatches) < Len(cluster)
         THEN <<Factor("name_variations", 0)>> ELSE <<>>)
     \o (IF locationCount > 0 THEN <<Factor("location_data", locationCount)>> ELSE <<>>)
     \o (IF profileCount > 0 THEN <<Factor("profiles", profileCount)>> ELSE <<>>)

Fact(kind, platform, url, loc, pct) ==
  [kind |-> kind, platform |-> platform, url |-> url, loc |-> loc, pct |-> pct]

\* (entity.confidence * 100).toFixed(0)
percent(confidence) == (confidence * 100 + ConfOne \div 2) \div ConfOne

\* [l.city, l.state, l.country].filter(Boolean).join(', ')
locationText(l) ==
  join(filter(<<l.city, l.state, l.country>>, LAMBDA x : x # <<>>), <<",", " ">>)

\* the facts of a member without the test `if (locStr)`
memberFacts_NoLocStrTest(entity) ==
  LET profileFacts == [k \in 1..Len(entity.profiles) |->
                         Fact("profile", entity.profiles[k].platform,
                              entity.profiles[k].url, <<>>, 0)]
      locStr == join([k \in 1..Len(entity.locations) |-> locationText(entity.locations[k])],
                     <<";", " ">>)
      locationFacts == IF Len(entity.locations) > 0
                       THEN <<Fact("location", <<>>, <<>>, locStr, 0)>> ELSE <<>>
      high == IF entity.confidence > (ConfOne * 8) \div 10
              THEN <<Fact("high_confidence", <<>>, <<>>, <<>>, percent(entity.confidence))>>
              ELSE <<>>
  IN profileFacts \o locationFacts \o high

\* the strings one cluster member adds to facts and to inferences
memberFacts(entity) ==
  LET profileFacts == [k \in 1..Len(entity.profiles) |->
                         Fact("profile", entity.profiles[k].platform,
                              entity.profiles[k].url, <<>>, 0)]
      locStr == join([k \in 1..Len(entity.locations) |-> locationText(entity.locations[k])],
                     <<";", " ">>)
      locationFacts == IF Len(entity.locations) > 0 /\ locStr # <<>>
                       THEN <<Fact("location", <<>>, <<>>, locStr, 0)>> ELSE <<>>
      high == IF entity.confidence > (ConfOne * 8) \div 10
              THEN <<Fact("high_confidence", <<>>, <<>>, <<>>, percent(entity.confidence))>>
              ELSE <<>>
  IN profileFacts \o locationFacts \o high

memberInferences(entity) ==
  IF entity.confidence > (ConfOne * 8) \div 10 THEN <<>>
  ELSE <<Fact("moderate_confidence", <<>>, <<>>, <<>>, percent(entity.confidence))>>

extractFactsAndInferences(cluster) ==
  [facts |-> flatMap(cluster, memberFacts),
   inferences |-> flatMap(cluster, memberInferences)]

Note(kind, n, text) == [kind |-> kind, n |-> n, text |-> text]

\* every cluster merged, a cluster of one included
mergeCluster_NoSingletonShortcut(cluster) ==
  [name |-> reducePrimary(Head(cluster), Tail(cluster)).name,
   confidence |-> mergedConfidence(cluster),
   locations |-> deduplicateLocations(flatMap(cluster, LAMBDA e : e.locations)),
   profiles |-> deduplicateProfiles(flatMap(cluster, LAMBDA e : e.profiles)),
   sources |-> deduplicateSources(flatMap(cluster, LAMBDA e : e.sources)),
   notes |-> Note("merged", Len(cluster), <<>>),
   correlation_explanation |-> buildCorrelationExplanation(cluster),
   facts |-> extractFactsAndInferences(cluster).facts,
   inferences |-> extractFactsAndInferences(cluster).inferences]

mergeCluster(cluster) ==
  IF Len(cluster) = 1 THEN cluster[1]
  ELSE [name |-> reducePrimary(Head(cluster), Tail(cluster)).name,
        confidence |-> mergedConfidence(cluster),
        locations |-> deduplicateLocations(flatMap(cluster, LAMBDA e : e.locations)),
        profiles |-> deduplicateProfiles(flatMap(cluster, LAMBDA e : e.profiles)),
        sources |-> deduplicateSources(flatMap(cluster, LAMBDA e : e.sources)),
        notes |-> Note("merged", Len(cluster), <<>>),
        correlation_explanation |-> buildCorrelationExplanation(cluster),
        facts |-> extractFactsAndInferences(cluster).facts,
        inferences |-> extractFactsAndInferences(cluster).inferences]

(***************************************************************************)
(* resolveEntities                                                         *)
(***************************************************************************)
DEFAULT_CONFIDENCE_THRESHOLD == (ConfOne * 3) \div 10

DEFAULT_MAX_RESULTS == 50

\* query.confidence_threshold ?? 0.3
thresholdOf(q) ==
  IF q.confidence_threshold = Absent THEN DEFAULT_CONFIDENCE_THRESHOLD
  ELSE q.confidence_threshold

\* query.max_results ?? 50
maxResultsOf(q) == IF q.max_results = Absent THEN DEFAULT_MAX_RESULTS ELSE q.max_results

\* a filter that keeps everything
passesThreshold_Always(e, q) == TRUE

\* e => e.confidence >= (query.confidence_threshold ?? 0.3)
passesThreshold(e, q) == e.confidence >= thresholdOf(q)

\* the sort placing an element before the elements it ties with
RECURSIVE sortByConfidence_Unstable(_)
sortByConfidence_Unstable(list) ==
  IF list = <<>> THEN <<>>
  ELSE LET e == list[Len(list)]
           sorted == sortByConfidence_Unstable(SubSeq(list, 1, Len(list) - 1))
           before == Cardinality({k \in 1..Len(sorted) : sorted[k].confidence > e.confidence})
       IN SubSeq(sorted, 1, before) \o <<e>> \o SubSeq(sorted, before + 1, Len(sorted))

\* .sort((a, b) => b.confidence - a.confidence): Array.prototype.sort is
\* stable, so an element goes after the elements of greater or equal
\* confidence that precede it in the list
RECURSIVE sortByConfidence(_)
sortByConfidence(list) ==
  IF list = <<>> THEN <<>>
  ELSE LET e == list[Len(list)]
           sorted == sortByConfidence(SubSeq(list, 1, Len(list) - 1))
           before == Cardinality({k \in 1..Len(sorted) : sorted[k].confidence >= e.confidence})
       IN SubSeq(sorted, 1, before) \o <<e>> \o SubSeq(sorted, before + 1, Len(sorted))

\* a slice that keeps one element too many
sliceTo_OffByOne(list, end) == SubSeq(list, 1, Min(end + 1, Len(list)))

\* .slice(0, end) for end >= 0
sliceTo(list, end) == SubSeq(list, 1, Min(end, Len(list)))

\* clusters.map(cluster => this.mergeCluster(cluster, query))
mergeAll(entities, cs) == [c \in 1..Len(cs) |-> mergeCluster(members(entities, cs[c]))]

\* resolved.filter(...)
filterByThreshold(rs, q) == filter(rs, LAMBDA e : passesThreshold(e, q))

\* return resolved.filter(...).sort(...).slice(...)
rank(rs, q) == sliceTo(sortByConfidence(filterByThreshold(rs, q)), maxResultsOf(q))

resolveEntities(entities, q) == rank(mergeAll(entities, clusterEntities(entities)), q)

\* a sort applied to the array the caller passed in
sortReceiver_Input == "rawEntities"

\* the array .sort() reorders in place and returns: the one .filter() built
sortReceiver == "filtered"

\* the arrays of one resolveEntities call after
\* `return resolved.filter(...).sort(...).slice(...)`: filter and slice build
\* new arrays, sort reorders its receiver in place and returns it
rankArrays(arrays, q) ==
  LET a1 == [arrays EXCEPT !.filtered = filterByThreshold(arrays.resolved, q)]
      a2 == [a1 EXCEPT ![sortReceiver] = sortByConfidence(a1[sortReceiver])]
  IN [a2 EXCEPT !.returned = sliceTo(a2[sortReceiver], maxResultsOf(q))]

\* what one call of resolveEntities leaves behind for its caller
Call(input, q, inputAfter, output) ==
  [input |-> input, query |-> q, inputAfter |-> inputAfter, output |-> output]

(***************************************************************************)
(* EthicalGuardrails (src/core/guardrails.ts).  Times are milliseconds.    *)
(***************************************************************************)
\* the blocked terms, in the order the Set was built
blockedTerms ==
  <<<<"s","s","n">>,
    <<"s","o","c","i","a","l"," ","s","e","c","u","r","i","t","y">>,
    <<"t","a","x"," ","f","i","l","e"," ","n","u","m","b","e","r">>,
    <<"t","f","n">>,
    <<"c","r","e","d","i","t"," ","c","a","r","d">>,
    <<"b","a","n","k"," ","a","c","c","o","u","n","t">>,
    <<"p","a","s","s","p","o","r","t"," ","n","u","m","b","e","r">>>>

maxQueriesPerHour == 100

\* 60 * 60 * 1000
windowMs == 3600000

\* the text searched as given, without lower-casing
searchTextOf_CaseSensitive(q) ==
  join(filter(<<q.full_name>> \o q.aliases, LAMBDA x : x # <<>>), <<" ">>)

\* [query.full_name, ...(query.aliases || [])].filter(Boolean).join(' ').toLowerCase()
searchTextOf(q) ==
  toLowerCase(join(filter(<<q.full_name>> \o q.aliases, LAMBDA x : x # <<>>), <<" ">>))

GuardError(kind, term) == [kind |-> kind, term |-> term]

\* a limiter that lets one call too many through
checkRateLimit_OneTooMany(timestamps, t) ==
  LET recentTimestamps == filter(timestamps, LAMBDA ts : t - ts < windowMs)
  IN IF Len(recentTimestamps) > maxQueriesPerHour
     THEN [allowed |-> FALSE, timestamps |-> timestamps]
     ELSE [allowed |-> TRUE, timestamps |-> Append(recentTimestamps, t)]

\* checkRateLimit for a client whose stored list is `timestamps`, at time t:
\* the value returned and the list stored afterwards
checkRateLimit(timestamps, t) ==
  LET recentTimestamps == filter(timestamps, LAMBDA ts : t - ts < windowMs)
  IN IF Len(recentTimestamps) >= maxQueriesPerHour
     THEN [allowed |-> FALSE, timestamps |-> timestamps]
     ELSE [allowed |-> TRUE, timestamps |-> Append(recentTimestamps, t)]

\* the list the Map holds for a client, [] once has() failed and set() ran
storedTimestamps(map, clientId) ==
  IF clientId \in DOMAIN map THEN map[clientId] ELSE <<>>

\* the errors and warnings of validateQuery, given what checkRateLimit said
validateQuery(q, allowed) ==
  LET searchText == searchTextOf(q)
      termErrors == [k \in 1..Len(blockedTerms) |->
                       GuardError("blocked_term", blockedTerms[k])]
      errors ==
        filter(termErrors, LAMBDA e : includes(searchText, e.term))
        \o (IF q.full_name = <<>> /\ Len(q.aliases) = 0
            THEN <<GuardError("name_required", <<>>)>> ELSE <<>>)
        \o (IF ~allowed THEN <<GuardError("rate_limit", <<>>)>> ELSE <<>>)
      warnings ==
        (IF q.location.city # <<>> /\ q.location.state # <<>>
         THEN <<"specific_location">> ELSE <<>>)
        \o (IF thresholdOf(q) < (ConfOne * 5) \div 10
            THEN <<"low_confidence_threshold">> ELSE <<>>)
  IN [valid |-> Len(errors) = 0, warnings |-> warnings, errors |-> errors]

\* the characters matched by \d
IsDigit(c) == \E i \in 1..10 : DigitChars[i] = c

\* the characters matched by \w
IsWordChar(c) ==
  \/ IsDigit(c)
  \/ \E i \in 1..26 : UpperChars[i] = c \/ LowerChars[i] = c
  \/ c = "_"

\* \b at the gap before position pos
wordBoundary(text, pos) ==
  LET before == pos > 1 /\ IsWordChar(text[pos - 1])
      after == pos <= Len(text) /\ IsWordChar(text[pos])
  IN before # after

\* \d{n} at position pos
digitsAt(text, pos, n) ==
  /\ pos + n - 1 <= Len(text)
  /\ \A k \in pos..(pos + n - 1) : IsDigit(text[k])

\* the length of a match of \d{3}-\d{2}-\d{4} at pos, 0 when there is none
ssnLength(text, pos) ==
  IF /\ digitsAt(text, pos, 3)
     /\ pos + 10 <= Len(text)
     /\ text[pos + 3] = "-"
     /\ digitsAt(text, pos + 4, 2)
     /\ text[pos + 6] = "-"
     /\ digitsAt(text, pos + 7, 4)
  THEN 11 ELSE 0

\* the length of a match of [\s-]? at pos: the separator is taken when
\* there is one, since no digit can stand in its place
separatorLength(text, pos) ==
  IF pos <= Len(text) /\ (IsSpace(text[pos]) \/ text[pos] = "-") THEN 1 ELSE 0

\* the length of a match of \d{4}[\s-]?\d{4}[\s-]?\d{4}[\s-]?\d{4} at pos, 0
\* when there is none
cardLength(text, pos) ==
  LET s1 == separatorLength(text, pos + 4)
      s2 == separatorLength(text, pos + 8 + s1)
      s3 == separatorLength(text, pos + 12 + s1 + s2)
  IN IF /\ digitsAt(text, pos, 4)
        /\ digitsAt(text, pos + 4 + s1, 4)
        /\ digitsAt(text, pos + 8 + s1 + s2, 4)
        /\ digitsAt(text, pos + 12 + s1 + s2 + s3, 4)
     THEN 16 + s1 + s2 + s3 ELSE 0

\* the length of a match of one of the two patterns at pos; `bounded` says
\* whether the pattern stands between two \b
matchLength(pattern, text, pos, bounded) ==
  LET n == IF pattern = "ssn" THEN ssnLength(text, pos) ELSE cardLength(text, pos)
  IN IF n > 0 /\ (~bounded \/ (wordBoundary(text, pos) /\ wordBoundary(text, pos + n)))
     THEN n ELSE 0

REDACTED == <<"[","R","E","D","A","C","T","E","D","]">>

\* String.prototype.replace(/.../g, '[REDACTED]') from position pos on:
\* matches are taken from left to right and do not overlap
RECURSIVE replaceFrom(_, _, _, _)
replaceFrom(pattern, text, pos, bounded) ==
  IF pos > Len(text) THEN <<>>
  ELSE LET n == matchLength(pattern, text, pos, bounded)
       IN IF n > 0 THEN REDACTED \o replaceFrom(pattern, text, pos + n, bounded)
          ELSE <<text[pos]>> \o replaceFrom(pattern, text, pos + 1, bounded)

\* sanitizeText: the SSN pattern, then the credit card pattern
sanitizeText(text) ==
  replaceFrom("card", replaceFrom("ssn", text, 1, TRUE), 1, TRUE)

\* the string a notes field holds: absent notes are read as ''
\* (entity.notes || ''), the notes of a merged entity are the template
\* literal `Merged from ${cluster.length} potential matches`
noteText(note) ==
  IF note.kind = "merged"
  THEN <<"M","e","r","g","e","d"," ","f","r","o","m"," ">> \o decimal(note.n) \o <<" ","p","o","t","e","n","t","i","a","l"," ","m","a","t","c","h","e","s">>
  ELSE note.text

S_private == <<"p","r","i","v","a","t","e">>

\* profile => profile.url && !profile.url.includes('private')
isPublicProfile(profile) == profile.url # <<>> /\ ~includes(profile.url, S_private)

\* sanitizeResults: a new object per entity, with notes and profiles replaced
sanitizeResults(entities) ==
  [k \in 1..Len(entities) |->
     [entities[k] EXCEPT
        !.notes = Note("text", 0, sanitizeText(noteText(entities[k].notes))),
        !.profiles = filter(entities[k].profiles, isPublicProfile)]]

(***************************************************************************)
(* person_search (OSINTTools.handlePersonSearch, src/server/tools.ts)      *)
(***************************************************************************)
\* PersonSearchInputSchema.safeParse(input): confidence_threshold must lie
\* in [0,1] and max_results must be a positive integer; the defaults 0.3
\* and 50 are filled in
safeParse_AcceptsAnyNumber(input) ==
  [success |-> TRUE,
   data |-> [input EXCEPT !.confidence_threshold = thresholdOf(input),
                          !.max_results = maxResultsOf(input)]]

safeParse(input) ==
  LET thresholdOk == input.confidence_threshold = Absent
                     \/ (input.confidence_threshold >= 0
                         /\ input.confidence_threshold <= ConfOne)
      maxResultsOk == input.max_results = Absent \/ input.max_results >= 1
  IN [success |-> thresholdOk /\ maxResultsOk,
      data |-> [input EXCEPT !.confidence_threshold = thresholdOf(input),
                             !.max_results = maxResultsOf(input)]]

EU_COUNTRIES == {<<"D","E">>, <<"F","R">>, <<"I","T">>, <<"E","S">>, <<"N","L">>, <<"B","E">>}

\* checkJurisdiction(query.location).restrictions
checkJurisdiction(location) ==
  (IF location.country \in EU_COUNTRIES THEN <<"eu_gdpr">> ELSE <<>>)
  \o (IF location.country = <<"A","U">> THEN <<"australia_privacy_act">> ELSE <<>>)

\* query.full_name || query.aliases?.[0] || ''
searchName(q) ==
  IF q.full_name # <<>> THEN q.full_name
  ELSE IF Len(q.aliases) > 0 THEN q.aliases[1]
  ELSE <<>>

\* what the handler returns: an error text, or the output with its
\* entities, sources_queried and warnings
Response(kind, isError, entities, sources, warnings) ==
  [kind |-> kind, isError |-> isError, entities |-> entities,
   sources_queried |-> sources, warnings |-> warnings,
   total_results |-> Len(entities)]

NoResponse == Response("none", FALSE, <<>>, <<>>, <<>>)

\* the records AuditLogger writes, without name hash and timestamp
ViolationRecord(errors) ==
  [type |-> "violation", violation_type |-> "query_validation", errors |-> errors,
   sources_queried |-> <<>>, result_count |-> 0]

QueryRecord(sources, count) ==
  [type |-> "query", violation_type |-> "", errors |-> <<>>,
   sources_queried |-> sources, result_count |-> count]

\* what one connector did in the loop
Visit(id, available, search, entities) ==
  [id |-> id, available |-> available, search |-> search, entities |-> entities]

\* sourcesQueried with the id pushed before searchPerson is awaited
sourcesAfter_PushedFirst(sources, id, search) == Append(sources, id)

\* sourcesQueried after one pass of the loop body: the id is pushed after
\* searchPerson returned, a throw skips the push
sourcesAfter(sources, id, search) ==
  IF search = "returned" THEN Append(sources, id) ELSE sources

(***************************************************************************)
(* BaseConnector (src/connectors/base.ts)                                  *)
(***************************************************************************)
\* this.config.rateLimit || 60
DEFAULT_RATE_LIMIT == 60

\* const windowMs = 60 * 1000 of isAvailable
requestWindowMs == 60000

\* the fields of a connector: config.enabled, the rate limit in force,
\* requestCount, requestWindowStart, lastRequestTime
Connector(enabled, rateLimit, requestCount, requestWindowStart, lastRequestTime) ==
  [enabled |-> enabled, rateLimit |-> rateLimit, requestCount |-> requestCount,
   requestWindowStart |-> requestWindowStart, lastRequestTime |-> lastRequestTime]

\* const minInterval = (60 * 1000) / this.rateLimit
minInterval(c) == 60000 \div c.rateLimit

\* isAvailable(): the connector after the call, and the value returned
isAvailable(c, t) ==
  IF ~c.enabled THEN [connector |-> c, result |-> FALSE]
  ELSE LET reset == IF t - c.requestWindowStart > requestWindowMs
                    THEN [c EXCEPT !.requestCount = 0, !.requestWindowStart = t]
                    ELSE c
       IN [connector |-> reset, result |-> reset.requestCount < reset.rateLimit]

\* the last two statements of enforceRateLimit:
\* this.lastRequestTime = Date.now(); this.requestCount++
countRequest(c, t) ==
  [c EXCEPT !.lastRequestTime = t, !.requestCount = c.requestCount + 1]

(***************************************************************************)
(* The data the behaviours are built from                                  *)
(***************************************************************************)
Location(city, state, country) == [city |-> city, state |-> state, country |-> country]

Profile(platform, url) == [platform |-> platform, url |-> url]

Source(name, type, url, confidence) ==
  [name |-> name, type |-> type, url |-> url, confidence |-> confidence]

\* a raw entity as a connector returns it: no note, explanation, facts or
\* inferences
RawEntity(name, confidence, locations, profiles, sources) ==
  [name |-> name, confidence |-> confidence, locations |-> locations,
   profiles |-> profiles, sources |-> sources,
   notes |-> Note("absent", 0, <<>>), correlation_explanation |-> <<>>,
   facts |-> <<>>, inferences |-> <<>>]

\* n tenths as a confidence
Tenths(n) == (ConfOne * n) \div 10

S_JohnDoe == <<"J","o","h","n"," ","D","o","e">>

S_johndoe == <<"j","o","h","n"," ","d","o","e">>

S_JohnDoeSpaced == <<" ","J","o","h","n"," "," ","D","o","e">>

S_John == <<"J","o","h","n">>

S_JaneDoe == <<"J","a","n","e"," ","D","o","e">>

S_JohnSmith == <<"J","o","h","n"," ","S","m","i","t","h">>

S_JaneSmith == <<"J","a","n","e"," ","S","m","i","t","h">>

S_NewYork == <<"N","e","w"," ","Y","o","r","k">>

S_NY == <<"N","Y">>

S_US == <<"U","S">>

S_us == <<"u","s">>

S_Source1 == <<"S","o","u","r","c","e","1">>

S_Source2 == <<"S","o","u","r","c","e","2">>

S_Source3 == <<"S","o","u","r","c","e","3">>

S_twitter == <<"t","w","i","t","t","e","r">>

S_github == <<"g","i","t","h","u","b">>

S_url1 == <<"h","t","t","p","s",":","/","/","t",".","c","o","/","j","d">>

S_url2 == <<"h","t","t","p","s",":","/","/","g",".","c","o","/","j","s">>

S_url3 == <<"h","t","t","p","s",":","/","/","s",".","c","o","/","3">>

\* the two entities of the test 'should resolve and deduplicate entities'
E_JohnDoeA ==
  RawEntity(S_JohnDoe, Tenths(8), <<Location(S_NewYork, <<>>, S_US)>>, <<>>,
            <<Source(S_Source1, "social_network", <<>>, Tenths(8))>>)

E_JohnDoeB ==
  RawEntity(S_JohnDoe, Tenths(7), <<Location(S_NewYork, S_NY, S_US)>>, <<>>,
            <<Source(S_Source2, "search_engine", <<>>, Tenths(7))>>)

\* the low-confidence entity of the test 'should filter by confidence threshold'
E_JaneDoe ==
  RawEntity(S_JaneDoe, Tenths(2), <<>>, <<>>,
            <<Source(S_Source2, "search_engine", <<>>, Tenths(2))>>)

E_johndoe ==
  RawEntity(S_johndoe, Tenths(9), <<>>, <<Profile(S_twitter, S_url1)>>,
            <<Source(S_Source1, "social_network", <<>>, Tenths(9))>>)

\* an entity whose own lists repeat a location, a profile and a source
E_John ==
  RawEntity(S_John, Tenths(5),
            <<Location(<<>>, <<>>, S_US), Location(<<>>, <<>>, S_US)>>,
            <<Profile(S_twitter, S_url1), Profile(S_twitter, S_url1)>>,
            <<Source(S_Source1, "social_network", <<>>, Tenths(5)),
              Source(S_Source1, "social_network", <<>>, Tenths(5))>>)

E_JohnSmith ==
  RawEntity(S_JohnSmith, Tenths(10), <<Location(<<>>, S_NY, S_us)>>,
            <<Profile(S_github, S_url2)>>,
            <<Source(S_Source3, "social_network", S_url3, Tenths(10))>>)

E_JohnDoeSpaced ==
  RawEntity(S_JohnDoeSpaced, Tenths(8), <<>>,
            <<Profile(S_twitter, S_url1), Profile(S_github, S_url2)>>,
            <<Source(S_Source2, "search_engine", S_url3, Tenths(8)),
              Source(S_Source2, "search_engine", <<>>, Tenths(8))>>)

\* an entity with an empty name, a location without fields and no source
E_Empty ==
  RawEntity(<<>>, Tenths(8), <<Location(<<>>, <<>>, <<>>)>>, <<>>, <<>>)

EntityPool ==
  {E_JohnDoeA, E_JohnDoeB, E_JaneDoe, E_johndoe, E_John, E_JohnDoeSpaced, E_Empty}

\* the entities pairs are drawn from when calculateSimilarity is taken alone:
\* every combination of a name, a location list, a profile list and a source
\* list below
SimNames == {S_JohnDoe, S_johndoe, S_John, S_JaneDoe}

SimLocations ==
  {<<>>,
   <<Location(S_NewYork, <<>>, S_US)>>,
   <<Location(S_NewYork, S_NY, S_US)>>,
   <<Location(<<>>, S_NY, S_us), Location(<<>>, <<>>, <<>>)>>}

SimProfiles ==
  {<<>>,
   <<Profile(S_twitter, S_url1)>>,
   <<Profile(S_twitter, S_url1), Profile(S_github, S_url2)>>}

SimSources ==
  {<<>>,
   <<Source(S_Source1, "social_network", <<>>, Tenths(8))>>,
   <<Source(S_Source2, "search_engine", S_url3, Tenths(8)),
     Source(S_Source3, "social_network", <<>>, Tenths(8))>>}

SimPool ==
  EntityPool \cup {E_JohnSmith}
  \cup {RawEntity(n, Tenths(8), l, p, src) :
          n \in SimNames, l \in SimLocations, p \in SimProfiles, src \in SimSources}

ThresholdPool == {Absent, 0, Tenths(3), Tenths(5)}

QueryPool ==
  [confidence_threshold : ThresholdPool, max_results : {Absent} \cup (1..MaxResultsBound)]

\* the entities of the test 'should respect max_results limit'
NUM_PERSONS == 20

PERSONS_MAX_RESULTS == 5

\* { name: `Person ${i}`, confidence: 0.8, locations: [], profiles: [], sources: [Source1] }
Person(i) ==
  RawEntity(<<"P","e","r","s","o","n"," ">> \o decimal(i), Tenths(8), <<>>, <<>>,
            <<Source(S_Source1, "search_engine", <<>>, Tenths(8))>>)

PersonsQueryPool ==
  [confidence_threshold : ThresholdPool,
   max_results : {Absent, PERSONS_MAX_RESULTS} \cup (1..MaxResultsBound)]

NameAlphabet == {"A", "a", "b", " "}

NamePool ==
  UNION {[1..n -> NameAlphabet] : n \in 0..MaxNameLen}
  \cup {S_JohnDoe, S_johndoe, S_John, S_JohnSmith, S_JaneSmith, S_JohnDoeSpaced}

(***************************************************************************)
(* Behaviours of the resolver: raw entities are gathered for a query, then *)
(* resolveEntities runs once on what was gathered                          *)
(***************************************************************************)
NamesIdle == name1 = <<>> /\ name2 = <<>> /\ nameSim = Absent /\ similarity = Absent

\* the guardrails as constructed: an empty Map of rate limits, no call yet
GuardIdle ==
  /\ now = 0
  /\ period = 0
  /\ rateLimits = [c \in {} |-> <<>>]
  /\ passTimes = <<>>
  /\ validation = [valid |-> TRUE, warnings |-> <<>>, errors |-> <<>>]

\* no person_search under way
SearchIdle ==
  /\ connectors = <<>>
  /\ cursor = 0
  /\ awaiting = "none"
  /\ sourcesQueried = <<>>
  /\ trace = <<>>
  /\ searchEvents = <<>>
  /\ auditLog = <<>>
  /\ response = NoResponse

\* BaseConnector as constructed with the default configuration at time 0,
\* and no searchPerson call under way
ConnectorIdle ==
  /\ connector = Connector(TRUE, DEFAULT_RATE_LIMIT, 0, 0, 0)
  /\ searches = <<>>
  /\ requestTimes = <<>>

ServerIdle ==
  calls = <<>> /\ GuardIdle /\ sanitized = <<>> /\ SearchIdle /\ ConnectorIdle

Init ==
  /\ rawEntities = <<>>
  /\ query \in QueryPool
  /\ phase = "gathering"
  /\ clusters = <<>>
  /\ resolved = <<>>
  /\ out = <<>>
  /\ NamesIdle
  /\ ServerIdle

\* allEntities.push(...entities)
Gather(e) ==
  /\ phase = "gathering"
  /\ Len(rawEntities) < MaxEntities
  /\ rawEntities' = Append(rawEntities, e)
  /\ UNCHANGED <<query, phase, clusters, resolved, out, nameVars, serverVars>>

\* const resolved = this.resolver.resolveEntities(allEntities, query): the
\* clusters, the resolved entity of each cluster, and the list returned
ResolveCall(allEntities, q) ==
  /\ clusters' = clusterEntities(allEntities)
  /\ resolved' = mergeAll(allEntities, clusters')
  /\ LET arrays == rankArrays([rawEntities |-> allEntities, resolved |-> resolved',
                               filtered |-> <<>>, returned |-> <<>>], q)
     IN /\ rawEntities' = arrays.rawEntities
        /\ out' = arrays.returned
        /\ calls' = Append(calls, Call(allEntities, q, arrays.rawEntities, arrays.returned))

Resolve ==
  /\ phase = "gathering"
  /\ ResolveCall(rawEntities, query)
  /\ phase' = "resolved"
  /\ UNCHANGED <<query, nameVars, guardVars, sanitized, searchVars, connectorVars>>

Next ==
  \/ \E e \in EntityPool : Gather(e)
  \/ Resolve

Spec == Init /\ [][Next]_vars

(***************************************************************************)
(* Behaviours of the max_results test: Person 0, Person 1, ... are         *)
(* gathered in order, then resolved                                        *)
(***************************************************************************)
InitPersons ==
  /\ rawEntities = <<>>
  /\ query \in PersonsQueryPool
  /\ phase = "gathering"
  /\ clusters = <<>>
  /\ resolved = <<>>
  /\ out = <<>>
  /\ NamesIdle
  /\ ServerIdle

GatherPerson ==
  /\ phase = "gathering"
  /\ Len(rawEntities) < NUM_PERSONS
  /\ rawEntities' = Append(rawEntities, Person(Len(rawEntities)))
  /\ UNCHANGED <<query, phase, clusters, resolved, out, nameVars, serverVars>>

NextPersons ==
  \/ GatherPerson
  \/ Resolve

SpecPersons == InitPersons /\ [][NextPersons]_vars

(***************************************************************************)
(* Behaviours of nameSimilarity alone: two names, compared once            *)
(***************************************************************************)
InitName ==
  /\ name1 \in NamePool
  /\ name2 \in NamePool
  /\ nameSim = Absent
  /\ similarity = Absent
  /\ rawEntities = <<>>
  /\ query = [confidence_threshold |-> Absent, max_results |-> Absent]
  /\ phase = "names"
  /\ clusters = <<>>
  /\ resolved = <<>>
  /\ out = <<>>
  /\ ServerIdle

CompareNames ==
  /\ nameSim = Absent
  /\ nameSim' = nameSimilarity(name1, name2)
  /\ UNCHANGED <<name1, name2, similarity, resolverVars, serverVars>>

NextName == CompareNames

SpecName == InitName /\ [][NextName]_vars

(***************************************************************************)
(* Behaviours of calculateSimilarity alone: two entities, compared once    *)
(***************************************************************************)
InitSim ==
  /\ rawEntities \in [1..2 -> SimPool]
  /\ similarity = Absent
  /\ query = [confidence_threshold |-> Absent, max_results |-> Absent]
  /\ phase = "pair"
  /\ clusters = <<>>
  /\ resolved = <<>>
  /\ out = <<>>
  /\ name1 = <<>>
  /\ name2 = <<>>
  /\ nameSim = Absent
  /\ ServerIdle

\* const similarity = this.calculateSimilarity(entities[i], entities[j], query)
CompareEntities ==
  /\ similarity = Absent
  /\ similarity' = calculateSimilarity(rawEntities[1], rawEntities[2])
  /\ UNCHANGED <<name1, name2, nameSim, resolverVars, serverVars>>

NextSim == CompareEntities

SpecSim == InitSim /\ [][NextSim]_vars

(***************************************************************************)
(* Behaviours of the clustering at its threshold: three records of one     *)
(* person whose similarities lie at and around 0.6.  For First and Third   *)
(* the terms are 2/3 (names), 7/15 (same state, cities 5/6), 2/3           *)
(* (platforms) and 3/5 (source types): the weighted sum is 0.6, and 0.6 is *)
(* also the double the code computes for it.                               *)
(***************************************************************************)
S_JohnADoe == <<"J","o","h","n"," ","A"," ","D","o","e">>

S_JohnBDoe == <<"J","o","h","n"," ","B"," ","D","o","e">>

S_CityF == <<"a"," ","b"," ","c"," ","d"," ","e"," ","f">>

S_CityG == <<"a"," ","b"," ","c"," ","d"," ","e"," ","g">>

S_linkedin == <<"l","i","n","k","e","d","i","n">>

ThreeSources ==
  <<Source(S_Source1, "search_engine", <<>>, Tenths(8)),
    Source(S_Source2, "social_network", <<>>, Tenths(8)),
    Source(S_Source3, "public_record", <<>>, Tenths(8))>>

FiveSources ==
  ThreeSources \o <<Source(S_Source1, "news_archive", <<>>, Tenths(8)),
                    Source(S_Source2, "academic", <<>>, Tenths(8))>>

E_First ==
  RawEntity(S_JohnADoe, Tenths(8), <<Location(S_CityF, S_NY, <<>>)>>,
            <<Profile(S_twitter, S_url1), Profile(S_github, S_url2)>>, ThreeSources)

\* First's name with Third's location, profiles and sources
E_Second ==
  RawEntity(S_JohnADoe, Tenths(7), <<Location(S_CityG, S_NY, <<>>)>>,
            <<Profile(S_twitter, S_url1), Profile(S_github, S_url2),
              Profile(S_linkedin, S_url3)>>, FiveSources)

E_Third ==
  RawEntity(S_JohnBDoe, Tenths(6), <<Location(S_CityG, S_NY, <<>>)>>,
            <<Profile(S_twitter, S_url1), Profile(S_github, S_url2),
              Profile(S_linkedin, S_url3)>>, FiveSources)

ClusterPool == {E_First, E_Second, E_Third, E_JohnDoeA, E_JaneDoe}

InitCluster ==
  /\ rawEntities = <<>>
  /\ query = [confidence_threshold |-> 0, max_results |-> Absent]
  /\ phase = "gathering"
  /\ clusters = <<>>
  /\ resolved = <<>>
  /\ out = <<>>
  /\ NamesIdle
  /\ ServerIdle

NextCluster ==
  \/ \E e \in ClusterPool : Gather(e)
  \/ Resolve

SpecCluster == InitCluster /\ [][NextCluster]_vars

(***************************************************************************)
(* Behaviours of one resolver serving several calls: the server keeps one  *)
(* PersonResolver and calls resolveEntities once per person_search; each   *)
(* call runs to its end before the next starts (the method is synchronous) *)
(***************************************************************************)
MaxCalls == 3

CallInputs ==
  {<<>>, <<E_JohnDoeA>>, <<E_JaneDoe, E_JohnDoeA>>, <<E_JohnDoeA, E_JohnDoeB>>}

CallQueries ==
  {[confidence_threshold |-> 0, max_results |-> Absent],
   [confidence_threshold |-> Absent, max_results |-> 1]}

InitCalls ==
  /\ rawEntities \in CallInputs
  /\ query \in CallQueries
  /\ phase = "gathering"
  /\ clusters = <<>>
  /\ resolved = <<>>
  /\ out = <<>>
  /\ NamesIdle
  /\ ServerIdle

\* the next person_search hands its own entities and query to the resolver
NewCall(input, q) ==
  /\ phase = "resolved"
  /\ Len(calls) < MaxCalls
  /\ rawEntities' = input
  /\ query' = q
  /\ phase' = "gathering"
  /\ clusters' = <<>>
  /\ resolved' = <<>>
  /\ out' = <<>>
  /\ UNCHANGED <<nameVars, calls, guardVars, sanitized, searchVars, connectorVars>>

NextCalls ==
  \/ Resolve
  \/ \E input \in CallInputs, q \in CallQueries : NewCall(input, q)

SpecCalls == InitCalls /\ [][NextCalls]_vars

(***************************************************************************)
(* Behaviours of validateQuery: calls arrive `period` milliseconds apart;  *)
(* passTimes records the times at which checkRateLimit returned true       *)
(***************************************************************************)
S_JohnDoeSSN == <<"J","o","h","n"," ","D","o","e"," ","S","S","N"," ","1","2","3","-","4","5","-","6","7","8","9">>

S_credit == <<"c","r","e","d","i","t">>

S_card == <<"c","a","r","d">>

S_Johnny == <<"J","o","h","n","n","y">>

GuardQuery(full_name, aliases, location, confidence_threshold) ==
  [full_name |-> full_name, aliases |-> aliases, location |-> location,
   confidence_threshold |-> confidence_threshold, max_results |-> Absent]

\* the queries of the guardrails tests, and queries around them: a blocked
\* term that spans full_name and an alias, a name given only as an alias,
\* an empty alias, harmless words of a blocked term, warnings
GuardQueries ==
  LET noLocation == Location(<<>>, <<>>, <<>>)
      newYork == Location(S_NewYork, S_NY, <<>>)
  IN {GuardQuery(S_JohnDoe, <<>>, noLocation, Tenths(5)),
      GuardQuery(S_JohnDoeSSN, <<>>, noLocation, Tenths(5)),
      GuardQuery(<<>>, <<>>, noLocation, Tenths(5)),
      GuardQuery(<<>>, <<>>, newYork, Absent),
      GuardQuery(S_credit, <<S_card>>, noLocation, Tenths(5)),
      GuardQuery(S_credit, <<>>, noLocation, Tenths(5)),
      GuardQuery(S_JohnDoe, <<S_card>>, noLocation, Tenths(5)),
      GuardQuery(<<>>, <<S_Johnny>>, noLocation, Tenths(5)),
      GuardQuery(<<>>, <<(<<>>)>>, noLocation, Tenths(5)),
      GuardQuery(S_JohnDoe, <<S_Johnny>>, newYork, Absent)}

MaxHours == 2

Periods == {0, windowMs \div 200, windowMs \div 100, windowMs \div 50}

\* const guardrailCheck = this.guardrails.validateQuery(query), called
\* `period` milliseconds after the call before
GuardrailsCall(q) ==
  /\ now' = now + period
  /\ LET clientId == "default"
         r == checkRateLimit(storedTimestamps(rateLimits, clientId), now')
     IN /\ rateLimits' = [c \in {clientId} |-> r.timestamps]
        /\ passTimes' = IF r.allowed THEN Append(passTimes, now') ELSE passTimes
        /\ validation' = validateQuery(q, r.allowed)
  /\ UNCHANGED period

ValidateQuery(q) ==
  /\ phase = "guard"
  /\ now + period <= MaxHours * windowMs
  /\ GuardrailsCall(q)
  /\ query' = q
  /\ UNCHANGED <<rawEntities, phase, clusters, resolved, out, nameVars, calls, sanitized,
                 searchVars, connectorVars>>

\* every call in the same millisecond, any query
InitGuard ==
  /\ rawEntities = <<>>
  /\ query \in GuardQueries
  /\ phase = "guard"
  /\ clusters = <<>>
  /\ resolved = <<>>
  /\ out = <<>>
  /\ NamesIdle
  /\ ServerIdle

NextGuard == \E q \in GuardQueries : ValidateQuery(q)

SpecGuard == InitGuard /\ [][NextGuard]_vars

Q_JohnDoe == GuardQuery(S_JohnDoe, <<>>, Location(<<>>, <<>>, <<>>), Tenths(5))

\* the query of the test 'should accept valid queries', at a steady rate
InitRate ==
  /\ rawEntities = <<>>
  /\ query = Q_JohnDoe
  /\ phase = "guard"
  /\ clusters = <<>>
  /\ resolved = <<>>
  /\ out = <<>>
  /\ NamesIdle
  /\ calls = <<>>
  /\ now = 0
  /\ period \in Periods
  /\ rateLimits = [c \in {} |-> <<>>]
  /\ passTimes = <<>>
  /\ validation = [valid |-> TRUE, warnings |-> <<>>, errors |-> <<>>]
  /\ sanitized = <<>>
  /\ SearchIdle
  /\ ConnectorIdle

NextRate == ValidateQuery(Q_JohnDoe)

SpecRate == InitRate /\ [][NextRate]_vars

(***************************************************************************)
(* Behaviours of sanitizeResults: a list of resolved entities, sanitized   *)
(* once                                                                    *)
(***************************************************************************)
MaxSanitized == 2

\* the notes of the test 'should sanitize sensitive data from results'
S_NoteSSN == <<"S","S","N",":"," ","1","2","3","-","4","5","-","6","7","8","9">>

\* the same number written straight after its label
S_NoteSSNGlued == <<"S","S","N","1","2","3","-","4","5","-","6","7","8","9">>

S_NoteCard == <<"c","a","r","d"," ","4","1","1","1"," ","1","1","1","1"," ","1","1","1","1"," ","1","1","1","1">>

S_NoteCardMixed == <<"4","1","1","1","-","1","1","1","1","1","1","1","1"," ","1","1","1","1"," ","x">>

S_urlPrivate == <<"h","t","t","p","s",":","/","/","t",".","c","o","/","p","r","i","v","a","t","e","/","j","d">>

SanitizeNotes ==
  {Note("absent", 0, <<>>), Note("merged", 2, <<>>), Note("text", 0, S_NoteSSN),
   Note("text", 0, S_NoteSSNGlued), Note("text", 0, S_NoteCard),
   Note("text", 0, S_NoteCardMixed)}

SanitizeProfiles ==
  {<<>>,
   <<Profile(S_twitter, S_url1), Profile(S_github, S_urlPrivate), Profile(S_linkedin, <<>>)>>}

SanitizePool ==
  {[E_JohnDoeA EXCEPT !.notes = n, !.profiles = p] :
     n \in SanitizeNotes, p \in SanitizeProfiles}

InitSanitize ==
  /\ out \in UNION {[1..n -> SanitizePool] : n \in 0..MaxSanitized}
  /\ phase = "sanitize"
  /\ rawEntities = <<>>
  /\ query = [confidence_threshold |-> Absent, max_results |-> Absent]
  /\ clusters = <<>>
  /\ resolved = <<>>
  /\ NamesIdle
  /\ ServerIdle

\* const sanitized = this.guardrails.sanitizeResults(resolved): map and
\* filter build new arrays and the spread builds new objects, the argument
\* is only read
Sanitize ==
  /\ phase = "sanitize"
  /\ sanitized' = sanitizeResults(out)
  /\ phase' = "sanitized"
  /\ UNCHANGED <<rawEntities, query, clusters, resolved, out, nameVars, calls, guardVars,
                 searchVars, connectorVars>>

NextSanitize == Sanitize

SpecSanitize == InitSanitize /\ [][NextSanitize]_vars

(***************************************************************************)
(* SpecSearch: one person_search call, connector by connector              *)
(***************************************************************************)
MaxConnectors == 4

\* ConnectorRegistry.initializeConnectors: the ids in registration order
RegisteredConnectors ==
  <<"google_search", "duckduckgo_search", "linkedin", "twitter", "username_search">>

\* registry.getEnabled() under the configurations that enable any of the
\* first MaxConnectors connectors: the enabled ids, in registration order
EnabledLists ==
  LET ids == SubSeq(RegisteredConnectors, 1, MaxConnectors)
      pick(S) == [i \in 1..Len(ids) |-> IF i \in S THEN <<ids[i]>> ELSE <<>>]
      RECURSIVE concat(_, _)
      concat(f, i) == IF i > Len(ids) THEN <<>> ELSE f[i] \o concat(f, i + 1)
  IN {concat(pick(S), 1) : S \in SUBSET (1..Len(ids))}

S_DE == <<"D","E">>

SearchInput(full_name, aliases, location, confidence_threshold, max_results) ==
  [full_name |-> full_name, aliases |-> aliases, location |-> location,
   confidence_threshold |-> confidence_threshold, max_results |-> max_results]

\* tool inputs: a query cut to one result, a query with the defaults and a
\* location in the EU, a name given as an empty alias, a blocked term,
\* max_results 0 and a confidence_threshold above 1
SearchInputs ==
  LET noLocation == Location(<<>>, <<>>, <<>>)
  IN {SearchInput(S_JohnDoe, <<>>, noLocation, Tenths(5), 1),
      SearchInput(S_JohnDoe, <<>>, Location(<<>>, <<>>, S_DE), Absent, Absent),
      SearchInput(<<>>, <<(<<>>)>>, noLocation, Tenths(5), Absent),
      SearchInput(S_JohnDoeSSN, <<>>, noLocation, Tenths(5), Absent),
      SearchInput(S_JohnDoe, <<>>, noLocation, Tenths(5), 0),
      SearchInput(S_JohnDoe, <<>>, noLocation, ConfOne + 1, Absent)}

\* E_JohnDoeB found with a profile whose url says it is private
E_JohnDoePrivate ==
  [E_JohnDoeB EXCEPT !.profiles = <<Profile(S_github, S_urlPrivate)>>]

\* what a connector's searchPerson may return
SearchResults == {<<>>, <<E_JohnDoeA>>, <<E_JohnDoePrivate, E_JaneDoe>>}

\* the guardrails of a fresh server, and of one that has served
\* maxQueriesPerHour queries in the running millisecond
InitSearch ==
  /\ rawEntities = <<>>
  /\ query = SearchInput(<<>>, <<>>, Location(<<>>, <<>>, <<>>), Absent, Absent)
  /\ phase = "idle"
  /\ clusters = <<>>
  /\ resolved = <<>>
  /\ out = <<>>
  /\ name1 = <<>> /\ name2 = <<>> /\ nameSim = 0 /\ similarity = 0
  /\ calls = <<>>
  /\ now = 0
  /\ period = 0
  /\ passTimes \in {<<>>, [i \in 1..maxQueriesPerHour |-> 0]}
  /\ rateLimits = IF passTimes = <<>> THEN [c \in {} |-> <<>>]
                  ELSE [c \in {"default"} |-> passTimes]
  /\ validation = [valid |-> TRUE, warnings |-> <<>>, errors |-> <<>>]
  /\ sanitized = <<>>
  /\ SearchIdle
  /\ ConnectorIdle

\* lines 444-477: resolve what was gathered, sanitize, log the query and
\* return the output
Respond(q, check, allEntities, sources) ==
  /\ ResolveCall(allEntities, q)
  /\ sanitized' = sanitizeResults(out')
  /\ auditLog' = Append(auditLog, QueryRecord(sources, Len(sanitized')))
  /\ response' = Response("output", FALSE, sanitized', sources,
                          check.warnings \o checkJurisdiction(q.location))
  /\ sourcesQueried' = sources
  /\ awaiting' = "none"
  /\ phase' = "responded"

\* the end of one pass of the for loop: the next connector, or the code
\* after the loop when this was the last one
NextConnector(visit, allEntities, sources) ==
  /\ trace' = Append(trace, visit)
  /\ IF cursor = Len(connectors)
     THEN /\ Respond(query, validation, allEntities, sources)
          /\ UNCHANGED cursor
     ELSE /\ cursor' = cursor + 1
          /\ awaiting' = "isAvailable"
          /\ rawEntities' = allEntities
          /\ sourcesQueried' = sources
          /\ UNCHANGED <<phase, clusters, resolved, out, calls, sanitized, auditLog, response>>
  /\ UNCHANGED <<query, nameVars, guardVars, connectors, connectorVars>>

\* handlePersonSearch up to the first await: safeParse, validateQuery,
\* checkJurisdiction, getEnabled
PersonSearch(input, enabled) ==
  /\ phase = "idle"
  /\ LET parsed == safeParse(input)
     IN IF ~parsed.success
        THEN /\ response' = Response("invalid_input", TRUE, <<>>, <<>>, <<>>)
             /\ phase' = "responded"
             /\ UNCHANGED <<rawEntities, query, clusters, resolved, out, calls, guardVars,
                            sanitized, connectors, cursor, awaiting, sourcesQueried, trace,
                            searchEvents, auditLog>>
        ELSE /\ query' = parsed.data
             /\ GuardrailsCall(parsed.data)
             /\ IF ~validation'.valid
                THEN /\ auditLog' = Append(auditLog, ViolationRecord(validation'.errors))
                     /\ response' = Response("query_validation", TRUE, <<>>, <<>>, <<>>)
                     /\ phase' = "responded"
                     /\ UNCHANGED <<rawEntities, clusters, resolved, out, calls, sanitized,
                                    connectors, cursor, awaiting, sourcesQueried, trace,
                                    searchEvents>>
                ELSE /\ connectors' = enabled
                     /\ IF enabled = <<>>
                        THEN /\ Respond(parsed.data, validation', <<>>, <<>>)
                             /\ UNCHANGED <<cursor, trace, searchEvents>>
                        ELSE /\ cursor' = 1
                             /\ awaiting' = "isAvailable"
                             /\ phase' = "searching"
                             /\ UNCHANGED <<rawEntities, clusters, resolved, out, calls,
                                            sanitized, sourcesQueried, trace, searchEvents,
                                            auditLog, response>>
  /\ UNCHANGED <<nameVars, connectorVars>>

\* await connector.isAvailable() settles: "true", "false" or "throws"
IsAvailableReturns(result) ==
  /\ phase = "searching"
  /\ awaiting = "isAvailable"
  /\ IF result = "true" /\ searchName(query) # <<>>
     THEN /\ awaiting' = "searchPerson"
          /\ searchEvents' = Append(searchEvents, [id |-> connectors[cursor], event |-> "start"])
          /\ UNCHANGED <<rawEntities, query, phase, clusters, resolved, out, nameVars, calls,
                         guardVars, sanitized, connectors, cursor, sourcesQueried, trace,
                         auditLog, response, connectorVars>>
     ELSE /\ NextConnector(Visit(connectors[cursor], result, "not_called", <<>>),
                           rawEntities, sourcesQueried)
          /\ UNCHANGED searchEvents

\* await connector.searchPerson(...) settles: "returned" with entities, or
\* "throws"
SearchPersonReturns(outcome, entities) ==
  /\ phase = "searching"
  /\ awaiting = "searchPerson"
  /\ outcome = "throws" => entities = <<>>
  /\ searchEvents' = Append(searchEvents, [id |-> connectors[cursor], event |-> "end"])
  /\ NextConnector(Visit(connectors[cursor], "true", outcome, entities),
                   IF outcome = "returned" THEN rawEntities \o entities ELSE rawEntities,
                   sourcesAfter(sourcesQueried, connectors[cursor], outcome))

NextSearch ==
  \/ \E input \in SearchInputs, enabled \in EnabledLists : PersonSearch(input, enabled)
  \/ \E result \in {"true", "false", "throws"} : IsAvailableReturns(result)
  \/ \E outcome \in {"returned", "throws"}, entities \in SearchResults :
       SearchPersonReturns(outcome, entities)

SpecSearch == InitSearch /\ [][NextSearch]_vars

(***************************************************************************)
(* SpecMerge: clusters of records that agree on location, profile and      *)
(* source and differ in name and confidence                                *)
(***************************************************************************)
\* a record of the person the pool is about
MergeEntity(name, confidence, locations) ==
  RawEntity(name, confidence, locations, <<Profile(S_twitter, S_url1)>>,
            <<Source(S_Source1, "social_network", <<>>, confidence)>>)

\* two names at 0.8 and two at 0.9, a repeated name, a weak record, a
\* record whose only location has no field and a record without locations
\* and profiles
MergePool ==
  LET newYork == <<Location(S_NewYork, S_NY, S_US)>>
  IN {MergeEntity(S_JohnDoe, Tenths(8), newYork),
      MergeEntity(S_JohnADoe, Tenths(8), newYork),
      MergeEntity(S_JohnDoe, Tenths(9), newYork),
      MergeEntity(S_JohnBDoe, Tenths(9), newYork),
      MergeEntity(S_JohnDoe, Tenths(1), newYork),
      MergeEntity(S_JohnDoe, Tenths(7), <<Location(<<>>, <<>>, <<>>)>>),
      RawEntity(S_JohnDoe, Tenths(8), <<>>, <<>>,
                <<Source(S_Source1, "social_network", <<>>, Tenths(8))>>)}

\* every record kept, and the records of confidence 0.5 and more
MergeQueries ==
  {[confidence_threshold |-> 0, max_results |-> Absent],
   [confidence_threshold |-> Tenths(5), max_results |-> Absent]}

InitMerge ==
  /\ rawEntities = <<>>
  /\ query \in MergeQueries
  /\ phase = "gathering"
  /\ clusters = <<>>
  /\ resolved = <<>>
  /\ out = <<>>
  /\ NamesIdle
  /\ ServerIdle

NextMerge ==
  \/ \E e \in MergePool : Gather(e)
  \/ Resolve

SpecMerge == InitMerge /\ [][NextMerge]_vars

(***************************************************************************)
(* SpecLoc: calculateSimilarity on two records that differ in their        *)
(* locations only                                                          *)
(***************************************************************************)
S_newYorkPadded == <<" ","n","e","w"," ","y","o","r","k">>

S_York == <<"Y","o","r","k">>

S_NewHaven == <<"N","e","w"," ","H","a","v","e","n">>

S_ny == <<"n","y">>

S_CT == <<"C","T">>

\* every combination of a city, a state and a country, each of them also
\* missing, in another case or different
LocCities == {<<>>, S_NewYork, S_newYorkPadded, S_York, S_NewHaven}

LocStates == {<<>>, S_NY, S_ny, S_CT}

LocCountries == {<<>>, S_US, S_us, S_DE}

\* no location, one location, and lists of two
LocLists ==
  {<<>>}
  \cup {<<Location(c, st, co)>> : c \in LocCities, st \in LocStates, co \in LocCountries}
  \cup {<<Location(S_NewHaven, S_CT, S_DE), Location(S_York, S_ny, S_us)>>,
        <<Location(<<>>, <<>>, <<>>), Location(S_NewYork, S_NY, S_US)>>}

LocEntity(locations) == RawEntity(S_JohnDoe, Tenths(8), locations, <<>>, <<>>)

InitLoc ==
  /\ rawEntities \in [1..2 -> {LocEntity(l) : l \in LocLists}]
  /\ similarity = Absent
  /\ query = [confidence_threshold |-> Absent, max_results |-> Absent]
  /\ phase = "pair"
  /\ clusters = <<>>
  /\ resolved = <<>>
  /\ out = <<>>
  /\ name1 = <<>>
  /\ name2 = <<>>
  /\ nameSim = Absent
  /\ ServerIdle

NextLoc == CompareEntities

SpecLoc == InitLoc /\ [][NextLoc]_vars

(***************************************************************************)
(* SpecConnector: person_search calls that run at the same time and share  *)
(* one connector object of the registry                                    *)
(***************************************************************************)
MaxClients == 2

MaxTicks == 6

\* the configured rateLimit of the shared connector, requests per minute
SharedRateLimit == 2

\* the step of the clock
TickMs == requestWindowMs \div 4

\* Date.now() when the connector is constructed: later than one window
\* after lastRequestTime = 0
ConstructedAt == requestWindowMs * 2

Clients == 1..MaxClients

\* where a call stands with the connector, and when its timer is due
Search(pc, wakeAt) == [pc |-> pc, wakeAt |-> wakeAt]

InitConnector ==
  /\ rawEntities = <<>>
  /\ query = [confidence_threshold |-> Absent, max_results |-> Absent]
  /\ phase = "connector"
  /\ clusters = <<>>
  /\ resolved = <<>>
  /\ out = <<>>
  /\ NamesIdle
  /\ calls = <<>>
  /\ now = ConstructedAt
  /\ period = 0
  /\ rateLimits = [c \in {} |-> <<>>]
  /\ passTimes = <<>>
  /\ validation = [valid |-> TRUE, warnings |-> <<>>, errors |-> <<>>]
  /\ sanitized = <<>>
  /\ SearchIdle
  /\ connector \in {Connector(e, SharedRateLimit, 0, ConstructedAt, 0) : e \in BOOLEAN}
  /\ searches = [c \in Clients |-> Search("idle", 0)]
  /\ requestTimes = <<>>

\* everything but the clock, the connector and the calls on it
connectorFrame ==
  <<resolverVars, nameVars, calls, period, rateLimits, passTimes, validation, sanitized,
    searchVars>>

\* Date.now() moves on
Tick ==
  /\ now < ConstructedAt + MaxTicks * TickMs
  /\ now' = now + TickMs
  /\ UNCHANGED <<connectorFrame, connectorVars>>

\* the times of the latest two requests
lastTwo(times) == IF Len(times) > 2 THEN SubSeq(times, Len(times) - 1, Len(times)) ELSE times

\* handlePersonSearch reaches the connector in its loop over getEnabled():
\* if (!(await connector.isAvailable())) continue
HandlerIsAvailable(c) ==
  /\ searches[c].pc = "idle"
  /\ connector.enabled
  /\ LET r == isAvailable(connector, now)
     IN /\ connector' = r.connector
        /\ searches' = [searches EXCEPT ![c].pc = IF r.result THEN "searchPerson" ELSE "idle"]
  /\ UNCHANGED <<connectorFrame, now, requestTimes>>

\* searchPerson: if (!(await this.isAvailable())) throw new Error(...)
SearchPersonIsAvailable(c) ==
  /\ searches[c].pc = "searchPerson"
  /\ LET r == isAvailable(connector, now)
     IN /\ connector' = r.connector
        /\ searches' = [searches EXCEPT
                          ![c].pc = IF r.result THEN "enforceRateLimit" ELSE "idle"]
  /\ UNCHANGED <<connectorFrame, now, requestTimes>>

\* enforceRateLimit up to its await: a timer when the last request is less
\* than minInterval ago, otherwise the request is counted at once
EnforceRateLimit(c) ==
  /\ searches[c].pc = "enforceRateLimit"
  /\ LET timeSinceLastRequest == now - connector.lastRequestTime
     IN IF timeSinceLastRequest < minInterval(connector)
        THEN /\ searches' = [searches EXCEPT
                               ![c] = Search("waiting",
                                             now + minInterval(connector)
                                                 - timeSinceLastRequest)]
             /\ UNCHANGED <<connector, requestTimes>>
        ELSE /\ connector' = countRequest(connector, now)
             /\ requestTimes' = lastTwo(Append(requestTimes, now))
             /\ searches' = [searches EXCEPT ![c].pc = "request"]
  /\ UNCHANGED <<connectorFrame, now>>

\* the timer of enforceRateLimit fires and the request is counted
TimerFires(c) ==
  /\ searches[c].pc = "waiting"
  /\ now >= searches[c].wakeAt
  /\ connector' = countRequest(connector, now)
  /\ requestTimes' = lastTwo(Append(requestTimes, now))
  /\ searches' = [searches EXCEPT ![c] = Search("request", 0)]
  /\ UNCHANGED <<connectorFrame, now>>

\* the request is answered and searchPerson returns
RequestReturns(c) ==
  /\ searches[c].pc = "request"
  /\ searches' = [searches EXCEPT ![c].pc = "idle"]
  /\ UNCHANGED <<connectorFrame, now, connector, requestTimes>>

NextConnectorStep ==
  \/ Tick
  \/ \E c \in Clients : HandlerIsAvailable(c)
  \/ \E c \in Clients : SearchPersonIsAvailable(c)
  \/ \E c \in Clients : EnforceRateLimit(c)
  \/ \E c \in Clients : TimerFires(c)
  \/ \E c \in Clients : RequestReturns(c)

SpecConnector == InitConnector /\ [][NextConnectorStep]_vars

(***************************************************************************)
(* Properties                                                              *)
(***************************************************************************)
Resolved == phase = "resolved"

\* the threshold a query asks for, 0.3 when it names none
AskedThreshold == IF query.confidence_threshold = Absent THEN Tenths(3)
                  ELSE query.confidence_threshold

\* the result count a query asks for, 50 when it names none
AskedMaxResults == IF query.max_results = Absent THEN 50 ELSE query.max_results

\* the clusters whose resolved entity reaches the asked threshold
Qualifying == {c \in 1..Len(clusters) : resolved[c].confidence >= AskedThreshold}

\* C1: every entity resolveEntities returns has confidence >= the query's
\* confidence_threshold (0.3 when absent), and no resolved entity below the
\* threshold is in the output.
C1_ThresholdRespected ==
  Resolved =>
    /\ \A k \in 1..Len(out) : out[k].confidence >= AskedThreshold
    /\ \A c \in 1..Len(clusters) :
         resolved[c].confidence < AskedThreshold
           => \A k \in 1..Len(out) : out[k] # resolved[c]

C1_Witness ==
  /\ Resolved
  /\ Len(out) > 0
  /\ \E c \in 1..Len(clusters) : resolved[c].confidence < AskedThreshold
  /\ \E c \in 1..Len(clusters) : resolved[c].confidence = AskedThreshold

\* C2: with max_results >= 1 the output has at most max_results elements (50
\* when absent) and is exactly the first max_results elements of the filtered,
\* sorted list of resolved entities.
C2_MaxResultsRespected ==
  Resolved /\ AskedMaxResults >= 1 =>
    LET full == sortByConfidence(filterByThreshold(resolved, query))
    IN /\ Len(out) <= AskedMaxResults
       /\ Len(out) = Min(AskedMaxResults, Len(full))
       /\ \A k \in 1..Len(out) : out[k] = full[k]

C2_Witness ==
  /\ Resolved
  /\ query.max_results # Absent
  /\ Len(filterByThreshold(resolved, query)) > query.max_results
  /\ Len(out) = query.max_results

\* the place of qualifying cluster c in a stable descending order
StableRank(c) ==
  1 + Cardinality({d \in Qualifying :
                     \/ resolved[d].confidence > resolved[c].confidence
                     \/ /\ resolved[d].confidence = resolved[c].confidence
                        /\ d < c})

\* C3: the output is ordered by non-increasing confidence and the sort is
\* stable: resolved entities of equal confidence keep the order in which their
\* clusters were produced, which is the input order of the cluster seeds.
C3_SortedStable ==
  Resolved =>
    /\ Len(resolved) = Len(clusters)
    /\ \A k \in 1..(Len(out) - 1) : out[k].confidence >= out[k+1].confidence
    /\ \A c \in Qualifying : StableRank(c) <= Len(out) => out[StableRank(c)] = resolved[c]
    /\ \A c \in 1..(Len(clusters) - 1) : clusters[c][1] < clusters[c+1][1]

C3_Witness ==
  /\ Resolved
  /\ \E c, d \in Qualifying :
       /\ c < d
       /\ resolved[c].confidence = resolved[d].confidence
       /\ resolved[c] # resolved[d]
       /\ StableRank(d) <= Len(out)
  /\ \E k \in 1..(Len(out) - 1) : out[k].confidence > out[k+1].confidence

\* the places (cluster, index) at which input position p occurs
Occurrences(p) ==
  {ck \in (1..Len(clusters)) \X (1..MaxEntities + 1) :
     ck[2] <= Len(clusters[ck[1]]) /\ clusters[ck[1]][ck[2]] = p}

\* C4: clusterEntities partitions its input: each input position is in exactly
\* one cluster, every cluster is non-empty, and the cluster sizes add up to the
\* input length.
C4_ClustersPartitionInput ==
  Resolved =>
    /\ \A p \in 1..Len(rawEntities) : Cardinality(Occurrences(p)) = 1
    /\ \A c \in 1..Len(clusters) :
         /\ Len(clusters[c]) >= 1
         /\ \A k \in 1..Len(clusters[c]) : clusters[c][k] \in 1..Len(rawEntities)
    /\ reduceSum(clusters, LAMBDA cl : Len(cl)) = Len(rawEntities)

C4_Witness ==
  /\ Resolved
  /\ Len(clusters) >= 2
  /\ \E c \in 1..Len(clusters) : Len(clusters[c]) >= 2

\* C5: singleton passthrough: resolveEntities([e], {confidence_threshold: 0,
\* max_results >= 1}) returns exactly [e], every field unchanged.
C5_SingletonPassthrough ==
  Resolved /\ Len(rawEntities) = 1 /\ query.confidence_threshold = 0 /\ AskedMaxResults >= 1
    => /\ out = rawEntities
       /\ resolveEntities(rawEntities, query) = rawEntities

C5_Witness ==
  /\ Resolved
  /\ rawEntities = <<E_John>>
  /\ query.confidence_threshold = 0
  /\ out = <<E_John>>

\* C6: the two "John Doe" records of confidence 0.8 and 0.7, located in
\* {New York, US} and {New York, NY, US}, without profiles, each with one
\* source of its own name and type, have similarity > 0.6, and with threshold
\* 0.3 resolve to one entity with 2 sources and confidence 0.825.
C6_JohnDoeMerge ==
  Resolved /\ rawEntities = <<E_JohnDoeA, E_JohnDoeB>> /\ AskedThreshold = Tenths(3)
    => /\ calculateSimilarity(rawEntities[1], rawEntities[2]) * 10 > ScoreOne * 6
       /\ Len(out) = 1
       /\ Len(out[1].sources) = 2
       /\ out[1].confidence * 1000 = ConfOne * 825

C6_Witness ==
  /\ Resolved
  /\ rawEntities = <<E_JohnDoeA, E_JohnDoeB>>
  /\ query.confidence_threshold = Tenths(3)
  /\ Len(out) = 1

\* C7: of the 20 entities "Person 0" .. "Person 19" (confidence 0.8, no
\* location, no profile, one source of the same type) no two share a cluster,
\* also when one name is a substring of the other, so with threshold 0.3 and
\* max_results 5 exactly 5 unmerged entities are returned.
C7_PersonsNotMerged ==
  Resolved =>
    /\ \A c \in 1..Len(clusters) : Len(clusters[c]) = 1
    /\ \A i, j \in 1..Len(rawEntities) :
         i # j => calculateSimilarity(rawEntities[i], rawEntities[j]) * 10 <= ScoreOne * 6
    /\ (/\ Len(rawEntities) = NUM_PERSONS
        /\ query.confidence_threshold = Tenths(3)
        /\ query.max_results = PERSONS_MAX_RESULTS)
         => /\ Len(out) = 5
            /\ \A k \in 1..Len(out) : \E i \in 1..Len(rawEntities) : out[k] = rawEntities[i]

C7_Witness ==
  /\ Resolved
  /\ Len(rawEntities) = NUM_PERSONS
  /\ query.confidence_threshold = Tenths(3)
  /\ query.max_results = PERSONS_MAX_RESULTS
  /\ Len(out) = 5
  /\ includes(rawEntities[11].name, rawEntities[2].name)

\* C8: calculateSimilarity(a, b) = 0.4*name + 0.3*location + 0.2*profile +
\* 0.1*source with all four terms always applied; each term is in [0,1] and so
\* is the result.
C8_WeightedSum ==
  similarity # Absent =>
    LET a == rawEntities[1]
        b == rawEntities[2]
        nameSimAB == nameSimilarity(a.name, b.name)
        locSimAB == locationSimilarity(a.locations, b.locations)
        profileSimAB == profileSimilarity(a.profiles, b.profiles)
        sourceSimAB == sourceSimilarity(a.sources, b.sources)
    IN /\ nameSimAB \in 0..SimOne
       /\ locSimAB \in 0..LocOne
       /\ profileSimAB \in 0..SimOne
       /\ sourceSimAB \in 0..SimOne
       /\ similarity * 10 * LocOne
            = ScoreOne * (4 * nameSimAB * (LocOne \div SimOne) + 3 * locSimAB
                          + 2 * profileSimAB * (LocOne \div SimOne)
                          + 1 * sourceSimAB * (LocOne \div SimOne))
       /\ similarity \in 0..ScoreOne

C8_Witness ==
  /\ similarity # Absent
  /\ Len(rawEntities[1].locations) = 0
  /\ nameSimilarity(rawEntities[1].name, rawEntities[2].name) \in 1..(SimOne - 1)
  /\ profileSimilarity(rawEntities[1].profiles, rawEntities[2].profiles) \in 1..(SimOne - 1)
  /\ sourceSimilarity(rawEntities[1].sources, rawEntities[2].sources) \in 1..(SimOne - 1)
  /\ similarity > 0

\* the tokens of a, counted with repetition, that are also tokens of b
CommonTokenCount(a, b) ==
  Cardinality({i \in 1..Len(split(a)) : \E j \in 1..Len(split(b)) : split(a)[i] = split(b)[j]})

\* what the name rule gives for two names
NameRule(x, y) ==
  LET a == trim(toLowerCase(x))
      b == trim(toLowerCase(y))
  IN IF a = b THEN SimOne
     ELSE IF includes(a, b) \/ includes(b, a) THEN (SimOne * 8) \div 10
     ELSE (CommonTokenCount(a, b) * SimOne) \div Max(Len(split(a)), Len(split(b)))

HasDuplicateKey(arr, Key(_)) ==
  \E i, j \in 1..Len(arr) : i < j /\ Key(arr[i]) = Key(arr[j])

\* C10: no entity resolveEntities returns has two locations with the same key
\* country|state|city, two profiles with the same key platform|url, or two
\* sources with the same key name|url.
C10_NoDuplicateKeys ==
  Resolved =>
    \A k \in 1..Len(out) :
      /\ ~HasDuplicateKey(out[k].locations, locationKey)
      /\ ~HasDuplicateKey(out[k].profiles, profileKey)
      /\ ~HasDuplicateKey(out[k].sources, sourceKey)

\* the members of cluster c, as the entities of the input
ClusterMembers(c) == members(rawEntities, clusters[c])

\* the sum of the confidences of the members of cluster c
ConfidenceSum(c) ==
  LET ms == ClusterMembers(c)
      G[i \in 0..Len(ms)] == IF i = 0 THEN 0 ELSE G[i-1] + ms[i].confidence
  IN G[Len(ms)]

\* the lowest confidence among the members of cluster c
LowestConfidence(c) ==
  LET ms == ClusterMembers(c)
  IN CHOOSE x \in {ms[i].confidence : i \in 1..Len(ms)} :
       \A i \in 1..Len(ms) : x <= ms[i].confidence

\* C11: for a cluster of n >= 2 members with confidences in [0,1] the merged
\* confidence equals min(1.0, average * (1 + 0.1 * (n - 1))); it lies in
\* [0,1], is never below the average and never below the lowest member
\* confidence.  With sum the sum of the member confidences, the boosted
\* average is sum * (10 + (n - 1)) / (10 * n).
C11_MergedConfidence ==
  Resolved =>
    \A c \in 1..Len(clusters) :
      LET n == Len(clusters[c])
          sum == ConfidenceSum(c)
          conf == resolved[c].confidence
      IN n >= 2 =>
           /\ IF sum * (10 + (n - 1)) >= ConfOne * 10 * n
              THEN conf = ConfOne
              ELSE conf * 10 * n = sum * (10 + (n - 1))
           /\ conf >= 0
           /\ conf <= ConfOne
           /\ conf * n >= sum
           /\ conf >= LowestConfidence(c)

\* a cluster whose boosted average exceeds 1.0 and is cut to 1.0
C11_Witness ==
  /\ Resolved
  /\ \E c \in 1..Len(clusters) :
       /\ Len(clusters[c]) >= 2
       /\ ConfidenceSum(c) * (10 + (Len(clusters[c]) - 1)) > ConfOne * 10 * Len(clusters[c])
       /\ resolved[c].confidence = ConfOne

\* C12: resolveEntities is pure.  A call leaves the array it was given, the
\* entities in it and their location, profile and source lists as they
\* were; the resolver keeps nothing between calls: two calls with equal
\* input and equal query return equal output, whatever calls for other
\* queries ran before or between them.
C12_Pure ==
  /\ \A k \in 1..Len(calls) : calls[k].inputAfter = calls[k].input
  /\ \A j, k \in 1..Len(calls) :
       calls[j].input = calls[k].input /\ calls[j].query = calls[k].query
         => calls[j].output = calls[k].output

\* the first and the third call have the same input and query, the call
\* between them has another query and merged a cluster of two, and the
\* first call returned its two entities in the opposite of the input order
C12_Witness ==
  /\ Len(calls) >= 3
  /\ calls[1].input = calls[3].input
  /\ calls[1].query = calls[3].query
  /\ calls[2].query # calls[1].query
  /\ calls[2].input = <<E_JohnDoeA, E_JohnDoeB>>
  /\ Len(calls[2].output) = 1
  /\ Len(calls[1].output) = 2
  /\ calls[1].output[1] = calls[1].input[2]
  /\ calls[1].output[2] = calls[1].input[1]

\* the pairs of entities clusterEntities may compare: an earlier entity
\* with a later one
ComparedPairs == {p \in (1..Len(rawEntities)) \X (1..Len(rawEntities)) : p[1] < p[2]}

\* C13: resolveEntities never fails on absent optional fields (city, state,
\* country, source url, notes) or empty names: no string method is called
\* on an optional field that is absent, no division has denominator 0,
\* every token-overlap or set-overlap ratio whose denominator would be 0 is
\* 0, every similarity is a number in [0,1], every cluster average is over
\* at least one member, and an empty list of raw entities gives an empty
\* result.
C13_NeverFails ==
  Resolved =>
    /\ rawEntities = <<>> => out = <<>>
    /\ \A c \in 1..Len(clusters) : Len(clusters[c]) > 0
    /\ \A p \in ComparedPairs :
         LET e1 == rawEntities[p[1]]
             e2 == rawEntities[p[2]]
         IN /\ <<>> \notin receivers(e1, e2)
            /\ 0 \notin divisors(e1, e2)
            /\ e1.sources = <<>> /\ e2.sources = <<>> => sourceTerm(e1, e2) = 0
            /\ e1.profiles = <<>> /\ e2.profiles = <<>> => profileTerm(e1, e2) = 0
            /\ calculateSimilarity(e1, e2) \in 0..ScoreOne

\* two entities with an empty name, a location without fields, no profile
\* and no source were compared, and the call returned an entity with
\* locations and a name
C13_Witness ==
  /\ Resolved
  /\ \E p \in ComparedPairs :
       /\ rawEntities[p[1]] = E_Empty
       /\ rawEntities[p[2]] = E_Empty
       /\ nameTerm(E_Empty, E_Empty) = SimOne
       /\ locationTerm(E_Empty, E_Empty) = 0
  /\ \E k \in 1..Len(out) :
       /\ out[k].locations # <<>>
       /\ out[k].name # <<>>

\* the first member of every cluster
Seeds == {clusters[c][1] : c \in 1..Len(clusters)}

\* the seed of the cluster entity j is in
SeedOf(j) ==
  LET c == CHOOSE d \in 1..Len(clusters) : \E k \in 1..Len(clusters[d]) : clusters[d][k] = j
  IN clusters[c][1]

\* the seeds before j whose similarity with j exceeds the threshold
SimilarSeedsBefore(j) ==
  {s \in Seeds : s < j /\ calculateSimilarity(rawEntities[s], rawEntities[j])
                            > SIMILARITY_THRESHOLD}

\* C20: clustering is greedy and looks at seeds only.  Entity j is a seed
\* iff no earlier seed has similarity strictly above 0.6 with it; otherwise
\* it belongs to the cluster of the earliest such seed.  Similarity with
\* non-seed members plays no part, a similarity of exactly 0.6 does not
\* join, and clusters and the members of a cluster are in input order.
C20_SeedOnlyGreedy ==
  Resolved =>
    /\ \A j \in 1..Len(rawEntities) :
         /\ j \in Seeds <=> SimilarSeedsBefore(j) = {}
         /\ SimilarSeedsBefore(j) # {}
              => /\ SeedOf(j) \in SimilarSeedsBefore(j)
                 /\ \A s \in SimilarSeedsBefore(j) : SeedOf(j) <= s
    /\ \A c \in 1..Len(clusters) :
         /\ \A k \in 1..(Len(clusters[c]) - 1) : clusters[c][k] < clusters[c][k + 1]
         /\ c < Len(clusters) => clusters[c][1] < clusters[c + 1][1]

\* First, Second, Third in this order: Second joins First; Third has
\* similarity exactly 0.6 with the seed First and more than 0.6 with the
\* member Second, and starts a cluster of its own
C20_Witness ==
  /\ Resolved
  /\ rawEntities = <<E_First, E_Second, E_Third>>
  /\ calculateSimilarity(E_First, E_Third) = SIMILARITY_THRESHOLD
  /\ calculateSimilarity(E_Second, E_Third) > SIMILARITY_THRESHOLD
  /\ clusters = <<(<<1, 2>>), (<<3>>)>>

\* the checkRateLimit passes within the hour that ends at time t
PassesInWindow(times, t) == Cardinality({k \in 1..Len(times) : t - times[k] < windowMs})

\* validateQuery was handed a name: full_name or at least one alias
HasName(q) == q.full_name # <<>> \/ Len(q.aliases) > 0

\* full_name and the aliases, joined by single spaces and lower-cased,
\* contain a blocked term
HasBlockedTerm(q) ==
  LET given == SelectSeq(<<q.full_name>> \o q.aliases, LAMBDA x : x # <<>>)
      text == toLowerCase(join(given, <<" ">>))
  IN \E k \in 1..Len(blockedTerms) : includes(text, blockedTerms[k])

\* C14: validateQuery rejects (valid = false, at least one error) a query
\* whose full_name and aliases, joined by spaces and lower-cased, contain a
\* blocked term (ssn, social security, tax file number, tfn, credit card,
\* bank account, passport number), and a query with neither full_name nor
\* an alias; a query with a name, without blocked term and within the rate
\* limit is accepted whatever its warnings.
C14_ValidateQuery ==
  [][LET within == PassesInWindow(passTimes, now') < maxQueriesPerHour
     IN /\ HasBlockedTerm(query') => ~validation'.valid /\ Len(validation'.errors) >= 1
        /\ ~HasName(query') => ~validation'.valid /\ Len(validation'.errors) >= 1
        /\ HasName(query') /\ ~HasBlockedTerm(query') /\ within => validation'.valid]_vars

\* the query of the test 'should reject queries with blocked terms' was
\* rejected within the rate limit, for its blocked term alone
C14_Witness ==
  /\ phase = "guard"
  /\ query.full_name = S_JohnDoeSSN
  /\ query.aliases = <<>>
  /\ Len(passTimes) = 2
  /\ ~validation.valid
  /\ validation.errors = <<GuardError("blocked_term", blockedTerms[1])>>

\* the error validateQuery adds when checkRateLimit returns false
RateLimitError == GuardError("rate_limit", <<>>)

\* C15: at most 100 queries per hour and client.  With calls at
\* non-decreasing times, at most 100 calls pass the rate-limit check within
\* any one hour (the hour that ends at a call, the instant one hour before
\* it excluded); a call made when 100 calls have passed within that hour
\* returns valid = false with a rate-limit error and does not pass; the
\* list of timestamps stored for the client never has more than 100
\* entries.
C15_RateLimit ==
  [][/\ now' >= now
     /\ PassesInWindow(passTimes', now') <= maxQueriesPerHour
     /\ PassesInWindow(passTimes, now') >= maxQueriesPerHour
          => /\ ~validation'.valid
             /\ \E k \in 1..Len(validation'.errors) : validation'.errors[k] = RateLimitError
             /\ passTimes' = passTimes
     /\ \A c \in DOMAIN rateLimits' : Len(rateLimits'[c]) <= maxQueriesPerHour]_vars

\* calls arrive twice as fast as allowed: the hundred passes of the first
\* half hour are stored, a call was turned away, and later calls passed
\* again as the oldest passes left the window
C15_Witness ==
  /\ phase = "guard"
  /\ period = windowMs \div 200
  /\ Len(passTimes) > maxQueriesPerHour
  /\ PassesInWindow(passTimes, now) = maxQueriesPerHour
  /\ Len(rateLimits["default"]) = maxQueriesPerHour
  /\ ~validation.valid
  /\ validation.errors = <<RateLimitError>>

\* a text with every SSN-shaped (ddd-dd-dddd) substring, then every
\* substring of sixteen digits in four groups, replaced by [REDACTED],
\* from left to right
Redacted(text) == replaceFrom("card", replaceFrom("ssn", text, 1, FALSE), 1, FALSE)

\* C16: sanitizeResults returns one entity per input entity, in the same
\* order, whose notes are the input notes with every SSN-shaped
\* (ddd-dd-dddd) or 16-digit card-shaped substring replaced by [REDACTED],
\* whose profiles are the input profiles without those whose url is
\* missing or contains 'private', and whose other fields are unchanged;
\* the input entities are not modified.
C16_Sanitized ==
  [][phase' = "sanitized" =>
       /\ out' = out
       /\ Len(sanitized') = Len(out)
       /\ \A k \in 1..Len(out) :
            LET e == out[k]
                r == sanitized'[k]
            IN /\ r.notes.text = Redacted(noteText(e.notes))
               /\ r.profiles = SelectSeq(e.profiles,
                                 LAMBDA p : p.url # <<>> /\ ~includes(p.url, S_private))
               /\ r.name = e.name
               /\ r.confidence = e.confidence
               /\ r.locations = e.locations
               /\ r.sources = e.sources
               /\ r.correlation_explanation = e.correlation_explanation
               /\ r.facts = e.facts
               /\ r.inferences = e.inferences]_vars

(***************************************************************************)
(* person_search                                                           *)
(***************************************************************************)
\* the visits of the loop whose searchPerson returned normally
ReturnedVisits == SelectSeq(trace, LAMBDA v : v.search = "returned")

RECURSIVE gathered(_)
gathered(visits) ==
  IF visits = <<>> THEN <<>> ELSE Head(visits).entities \o gathered(Tail(visits))

\* C17: when isAvailable or searchPerson of a connector throws, person_search
\* goes on with the remaining enabled connectors: every call that passed
\* the guardrails ends with a non-error output, has visited every enabled
\* connector in order, returns the sanitized resolution of exactly the
\* entities the returning connectors gave, and lists in sources_queried
\* exactly the connectors whose searchPerson returned normally.
C17_FailureIsolation ==
  /\ phase = "searching" =>
       /\ Len(trace) = cursor - 1
       /\ response = NoResponse
  /\ (phase = "responded" /\ response.kind \notin {"invalid_input", "query_validation"}) =>
       /\ response.kind = "output"
       /\ ~response.isError
       /\ Len(trace) = Len(connectors)
       /\ \A i \in 1..Len(trace) : trace[i].id = connectors[i]
       /\ response.sources_queried = [i \in 1..Len(ReturnedVisits) |-> ReturnedVisits[i].id]
       /\ response.entities = sanitizeResults(resolveEntities(gathered(ReturnedVisits), query))
       /\ response.total_results = Len(response.entities)

C17_Witness ==
  /\ phase = "responded"
  /\ response.kind = "output"
  /\ response.entities # <<>>
  /\ \E i, j, k, l \in 1..Len(trace) :
       /\ i < j /\ i < k /\ j < l /\ k < l
       /\ trace[i].search = "returned" /\ trace[i].entities # <<>>
       /\ trace[j].available = "throws"
       /\ trace[k].search = "throws"
       /\ trace[l].search = "returned" /\ trace[l].entities # <<>>

\* the positions in searchEvents where a searchPerson call starts
Starts == {i \in 1..Len(searchEvents) : searchEvents[i].event = "start"}

\* the call started at position i has not settled by position j
InFlightAt(i, j) ==
  \A k \in (i + 1)..j :
    ~(searchEvents[k].event = "end" /\ searchEvents[k].id = searchEvents[i].id)

\* C18: person_search queries the enabled connectors in parallel: when a
\* call has searched two or more connectors, the searchPerson of a later
\* connector started while that of an earlier one was still in flight.
C18_Parallel ==
  (phase = "responded" /\ Cardinality(Starts) >= 2) =>
    \E i, j \in Starts : i < j /\ InFlightAt(i, j)

\* what the loop does instead: a searchPerson call starts only when every
\* earlier one has settled
C18_Sequential ==
  \A i, j \in Starts : i < j => ~InFlightAt(i, j)

\* C19: every person_search call has written an audit record (logQuery or
\* logViolation) by the time its response is returned, be it served,
\* rejected by the guardrails or rejected as invalid input.
C19_AuditTrail ==
  phase = "responded" =>
    \E i \in 1..Len(auditLog) : auditLog[i].type \in {"query", "violation"}

\* the calls that do leave a record: the served and the guardrail-rejected
C19_AuditedOutcomes ==
  phase = "responded" =>
    CASE response.kind = "output" ->
           auditLog = <<QueryRecord(response.sources_queried, response.total_results)>>
      [] response.kind = "query_validation" ->
           auditLog = <<ViolationRecord(validation.errors)>>
      [] OTHER -> auditLog = <<>>

(***************************************************************************)
(* The merged entity of a cluster                                          *)
(***************************************************************************)
SetMin(S) == CHOOSE x \in S : \A y \in S : x <= y

\* the greatest confidence among the members of cluster c
GreatestConfidence(c) ==
  SetMax({ClusterMembers(c)[k].confidence : k \in 1..Len(clusters[c])})

\* the positions in cluster c of the members with the greatest confidence
Greatest(c) ==
  {k \in 1..Len(clusters[c]) : ClusterMembers(c)[k].confidence = GreatestConfidence(c)}

\* C21 as stated: the name of a multi-member cluster is the name of its
\* member with the greatest confidence, the earliest of them in cluster
\* order when several tie.
C21_EarliestOfGreatest ==
  Resolved =>
    \A c \in 1..Len(clusters) :
      Len(clusters[c]) >= 2 =>
        resolved[c].name = ClusterMembers(c)[SetMin(Greatest(c))].name

\* C21 amended: the name of a multi-member cluster is the name of its
\* member with the greatest confidence, the latest of them in cluster
\* order when several tie (a member is replaced by every later member
\* whose confidence is greater or equal).
C21_LatestOfGreatest ==
  Resolved =>
    \A c \in 1..Len(clusters) :
      Len(clusters[c]) >= 2 =>
        resolved[c].name = ClusterMembers(c)[SetMax(Greatest(c))].name

\* two members with different names tie for the greatest confidence
C21_Witness ==
  /\ Resolved
  /\ \E c \in 1..Len(clusters) :
       /\ Len(clusters[c]) >= 2
       /\ \E k, l \in Greatest(c) :
            /\ k < l
            /\ l = SetMax(Greatest(c))
            /\ ClusterMembers(c)[k].name # ClusterMembers(c)[l].name
            /\ resolved[c].name = ClusterMembers(c)[l].name

\* the factors of one kind in the explanation of cluster c
FactorsOf(c, kind) ==
  SelectSeq(resolved[c].correlation_explanation, LAMBDA f : f.kind = kind)

DistinctNames(c) == {ClusterMembers(c)[k].name : k \in 1..Len(clusters[c])}

TotalLocations(c) == reduceSum(ClusterMembers(c), LAMBDA e : Len(e.locations))

TotalProfiles(c) == reduceSum(ClusterMembers(c), LAMBDA e : Len(e.profiles))

\* C22: the explanation of a multi-member cluster has the name-variation
\* note if and only if more than one distinct name appears among the
\* members; it has the cluster size, the location count iff the members
\* have a location in total and the profile count iff they have a profile
\* in total, in this order.
C22_Explanation ==
  Resolved =>
    \A c \in 1..Len(clusters) :
      Len(clusters[c]) >= 2 =>
        /\ FactorsOf(c, "found_matches") = <<Factor("found_matches", Len(clusters[c]))>>
        /\ FactorsOf(c, "name_variations") =
             IF Cardinality(DistinctNames(c)) > 1
             THEN <<Factor("name_variations", 0)>> ELSE <<>>
        /\ FactorsOf(c, "location_data") =
             IF TotalLocations(c) > 0
             THEN <<Factor("location_data", TotalLocations(c))>> ELSE <<>>
        /\ FactorsOf(c, "profiles") =
             IF TotalProfiles(c) > 0
             THEN <<Factor("profiles", TotalProfiles(c))>> ELSE <<>>
        /\ resolved[c].correlation_explanation =
             FactorsOf(c, "found_matches") \o FactorsOf(c, "name_variations")
             \o FactorsOf(c, "location_data") \o FactorsOf(c, "profiles")

\* what the code does for the note: it is there exactly when some name is
\* shared by two members
C22_NoteWhenNameRepeats ==
  Resolved =>
    \A c \in 1..Len(clusters) :
      Len(clusters[c]) >= 2 =>
        (FactorsOf(c, "name_variations") # <<>>
           <=> Cardinality(DistinctNames(c)) < Len(clusters[c]))

\* the facts of one kind of cluster c
FactsOf(c, kind) == SelectSeq(resolved[c].facts, LAMBDA f : f.kind = kind)

\* how many members of cluster c satisfy P
CountMembers(c, P(_)) ==
  Cardinality({k \in 1..Len(clusters[c]) : P(ClusterMembers(c)[k])})

\* how often the profile (platform, url) occurs in the members' lists
ProfileOccurrences(c, platform, url) ==
  reduceSum(ClusterMembers(c),
            LAMBDA e : Len(SelectSeq(e.profiles,
                                     LAMBDA q : q.platform = platform /\ q.url = url)))

HasFields(l) == l.city # <<>> \/ l.state # <<>> \/ l.country # <<>>

\* the member has a location with a city, a state or a country
HasNamedLocation(e) == \E k \in 1..Len(e.locations) : HasFields(e.locations[k])

HighConfidence(e) == e.confidence * 10 > ConfOne * 8

\* what C23 says of everything but the location facts: one fact per profile
\* of each member, repeated profiles included, and one confidence entry per
\* member, a fact above 0.8 and an inference otherwise
ProfileAndConfidenceEntries(c) ==
  /\ Len(FactsOf(c, "profile")) = TotalProfiles(c)
  /\ \A k \in 1..Len(clusters[c]) :
       \A i \in 1..Len(ClusterMembers(c)[k].profiles) :
         LET q == ClusterMembers(c)[k].profiles[i]
         IN Len(SelectSeq(resolved[c].facts,
                          LAMBDA f : f.kind = "profile" /\ f.platform = q.platform
                                     /\ f.url = q.url))
              = ProfileOccurrences(c, q.platform, q.url)
  /\ Len(FactsOf(c, "high_confidence")) = CountMembers(c, HighConfidence)
  /\ Len(resolved[c].inferences) = CountMembers(c, LAMBDA e : ~HighConfidence(e))
  /\ \A i \in 1..Len(resolved[c].inferences) :
       resolved[c].inferences[i].kind = "moderate_confidence"
  /\ Len(FactsOf(c, "high_confidence")) + Len(resolved[c].inferences) = Len(clusters[c])
  /\ Len(resolved[c].facts) = Len(FactsOf(c, "profile")) + Len(FactsOf(c, "location"))
                              + Len(FactsOf(c, "high_confidence"))

SameField(x, y) == x # <<>> /\ y # <<>> /\ toLowerCase(x) = toLowerCase(y)

\* 0.5 for the country, 0.3 for the state, 0.2 times the name rule on the
\* cities, for one pair of locations
PairRule(l1, l2) ==
  (IF SameField(l1.country, l2.country) THEN (LocOne * 5) \div 10 ELSE 0)
  + (IF SameField(l1.state, l2.state) THEN (LocOne * 3) \div 10 ELSE 0)
  + (IF l1.city # <<>> /\ l2.city # <<>>
     THEN (NameRule(l1.city, l2.city) * (LocOne \div SimOne) * 2) \div 10 ELSE 0)

LocationPairs(a, b) == (1..Len(a.locations)) \X (1..Len(b.locations))

\* the location term that went into the similarity of the two records
LocationTermOf(a, b) ==
  (similarity * 10 * LocOne
   - ScoreOne * (4 * nameSimilarity(a.name, b.name) * (LocOne \div SimOne)
                 + 2 * profileSimilarity(a.profiles, b.profiles) * (LocOne \div SimOne)
                 + 1 * sourceSimilarity(a.sources, b.sources) * (LocOne \div SimOne)))
  \div (3 * ScoreOne)

C24_WitnessUnknown ==
  /\ similarity # Absent
  /\ Len(rawEntities[1].locations) = 0
  /\ Len(rawEntities[2].locations) > 0
  /\ LocationTermOf(rawEntities[1], rawEntities[2]) * 2 = LocOne

(***************************************************************************)
(* The order of the steps of person_search                                 *)
(***************************************************************************)
\* the call has gone past the two checks: a connector was asked, the
\* resolver was called, or results were sanitized
DataAcquired ==
  \/ awaiting # "none"
  \/ trace # <<>>
  \/ searchEvents # <<>>
  \/ calls # <<>>
  \/ sanitized # <<>>

\* the query satisfies PersonSearchInputSchema
SchemaValid(q) ==
  /\ q.confidence_threshold >= 0 /\ q.confidence_threshold <= ConfOne
  /\ q.max_results >= 1

\* C25: guardrails precede data acquisition: a call whose input is invalid
\* or whose query validateQuery rejects ends with an isError response (and
\* a logged violation for the guardrail rejection) without any isAvailable,
\* searchPerson or resolver call; connectors are asked only for a query
\* that passed both checks; the entities of an output are sanitizeResults
\* of what the resolver returned.
C25_GuardrailsFirst ==
  /\ phase # "idle" =>
       \/ response.kind = "invalid_input"
       \/ SchemaValid(query)
  /\ ~validation.valid => response.kind = "query_validation"
  /\ response.kind \in {"invalid_input", "query_validation"} =>
       /\ phase = "responded"
       /\ response.isError
       /\ response.entities = <<>>
       /\ ~DataAcquired
       /\ connectors = <<>>
  /\ response.kind = "query_validation" =>
       /\ ~validation.valid
       /\ auditLog = <<ViolationRecord(validation.errors)>>
  /\ DataAcquired =>
       /\ SchemaValid(query)
       /\ validation.valid
       /\ validation = validateQuery(query, TRUE)
  /\ response.kind = "output" =>
       /\ Len(calls) = 1
       /\ out = calls[1].output
       /\ out = resolveEntities(calls[1].input, query)
       /\ response.entities = sanitizeResults(out)

\* a call rejected for a blocked term
C25_Witness ==
  /\ phase = "responded"
  /\ response.kind = "query_validation"
  /\ \E i \in 1..Len(validation.errors) : validation.errors[i].kind = "blocked_term"
  /\ Len(auditLog) = 1
  /\ trace = <<>>

\* a served call that asked two connectors
C25_WitnessServed ==
  /\ phase = "responded"
  /\ response.kind = "output"
  /\ Len(trace) >= 2
  /\ response.entities # <<>>

(***************************************************************************)
(* The rate limit of a connector                                           *)
(***************************************************************************)
\* C26: between two resets of its window a connector never counts more
\* requests than its rateLimit, two consecutive requests are at least
\* 60000 / rateLimit ms apart, whatever the interleaving of the calls that
\* share the connector, and a connector that is not enabled is never
\* available and never queried.
C26_ConnectorRateLimit ==
  /\ connector.requestCount <= connector.rateLimit
  /\ Len(requestTimes) >= 2 =>
       requestTimes[Len(requestTimes)] - requestTimes[Len(requestTimes) - 1]
         >= minInterval(connector)
  /\ ~connector.enabled =>
       /\ requestTimes = <<>>
       /\ \A c \in DOMAIN searches : searches[c].pc = "idle"
       /\ ~isAvailable(connector, now).result

\* the part that holds under every interleaving: a connector that is not
\* enabled is never available and never queried
C26_DisabledNeverQueried ==
  ~connector.enabled =>
    /\ requestTimes = <<>>
    /\ connector.requestCount = 0
    /\ \A c \in DOMAIN searches : searches[c].pc = "idle"
    /\ ~isAvailable(connector, now).result

\* the first part of C26 alone: the count of a window stays within rateLimit
C26_CountWithinLimit == connector.requestCount <= connector.rateLimit

\* the second part of C26 alone: consecutive requests are minInterval apart
C26_RequestsSpaced ==
  Len(requestTimes) >= 2 =>
    requestTimes[Len(requestTimes)] - requestTimes[Len(requestTimes) - 1]
      >= minInterval(connector)

(***************************************************************************)
(* Symmetry and order                                                      *)
(***************************************************************************)
\* a record with the given name, without location and profile
NamedEntity(name) ==
  RawEntity(name, Tenths(8), <<>>, <<>>,
            <<Source(S_Source1, "search_engine", <<>>, Tenths(8))>>)

\* C27: similarity is symmetric: nameSimilarity(x, y) = nameSimilarity(y, x)
\* for all names, names with repeated tokens included, and
\* calculateSimilarity(a, b) = calculateSimilarity(b, a), so that two
\* records are clustered together whichever of them is the seed.
C27_Symmetric ==
  nameSim # Absent =>
    LET a == NamedEntity(name1)
        b == NamedEntity(name2)
    IN /\ nameSim = nameSimilarity(name2, name1)
       /\ calculateSimilarity(a, b) = calculateSimilarity(b, a)
       /\ Len(clusterEntities(<<a, b>>)) = Len(clusterEntities(<<b, a>>))

\* where the symmetry does hold: names in which no token occurs twice
C27_SymmetricWithoutRepeats ==
  nameSim # Absent =>
    LET t1 == split(trim(toLowerCase(name1)))
        t2 == split(trim(toLowerCase(name2)))
        NoRepeats(t) == \A i, j \in 1..Len(t) : t[i] = t[j] => i = j
    IN (NoRepeats(t1) /\ NoRepeats(t2)) => nameSim = nameSimilarity(name2, name1)

\* the cluster that raw entity i was put in
ClusterOf(i) == CHOOSE c \in 1..Len(clusters) : \E k \in 1..Len(clusters[c]) : clusters[c][k] = i

Orderings(n) == {p \in [1..n -> 1..n] : \A i, j \in 1..n : p[i] = p[j] => i = j}

\* the input with the entity of position p[k] at position k
Permuted(p) == [k \in 1..Len(rawEntities) |-> rawEntities[p[k]]]

\* the groups of a clustering as sets of positions of the original input
Groups(cs, p) == {{p[cs[c][k]] : k \in 1..Len(cs[c])} : c \in 1..Len(cs)}

Identity == [i \in 1..Len(rawEntities) |-> i]

\* every permutation of the input is grouped as the input was
SameGroupsInAnyOrder ==
  \A p \in Orderings(Len(rawEntities)) :
    Groups(clusterEntities(Permuted(p)), p) = Groups(clusters, Identity)

\* two entities at different positions are similar
Similar(i, j) == calculateSimilarity(rawEntities[i], rawEntities[j]) * 10 > ScoreOne * 6

\* `similar` is symmetric and transitive on the input
SimilarIsEquivalence ==
  /\ \A i, j \in 1..Len(rawEntities) : i # j => (Similar(i, j) <=> Similar(j, i))
  /\ \A i, j, k \in 1..Len(rawEntities) :
       (i # j /\ j # k /\ i # k /\ Similar(i, j) /\ Similar(j, k)) => Similar(i, k)

\* C29 as stated: the partition produced by clusterEntities does not depend
\* on the order of the input: every permutation of the list groups the
\* same sets of entities together.
C29_OrderIndependent == Resolved => SameGroupsInAnyOrder

\* C29 amended: the partition does not depend on the order of the input
\* when `similarity > 0.6` is symmetric and transitive on the entities of
\* the input.
C29_OrderIndependentWhenTransitive ==
  (Resolved /\ SimilarIsEquivalence) => SameGroupsInAnyOrder

\* three entities, two of them similar, on which `similar` is symmetric and
\* transitive
C29_Witness ==
  /\ Resolved
  /\ Len(rawEntities) = 3
  /\ Len(clusters) = 2
  /\ SimilarIsEquivalence
  /\ Similar(2, 3)
  /\ SameGroupsInAnyOrder

(***************************************************************************)
(* Private profiles                                                        *)
(***************************************************************************)
\* the urls of the gathered profiles that sanitizeResults excludes for
\* being private
PrivateUrls ==
  LET allEntities == calls[1].input
      urls == UNION {{allEntities[i].profiles[k].url : k \in 1..Len(allEntities[i].profiles)} :
                       i \in 1..Len(allEntities)}
  IN {u \in urls : includes(u, S_private)}

\* the entity names the url in its profiles or in a string of its facts
Mentions(e, u) ==
  \/ \E k \in 1..Len(e.profiles) : e.profiles[k].url = u
  \/ \E k \in 1..Len(e.facts) : e.facts[k].kind = "profile" /\ e.facts[k].url = u

\* C30: no private profile survives the pipeline: after resolveEntities and
\* sanitizeResults no returned entity mentions, in its profiles or in a
\* string of its facts, the url of a profile that sanitizeResults excludes.
C30_NoPrivateProfile ==
  response.kind = "output" =>
    \A k \in 1..Len(response.entities) :
      \A u \in PrivateUrls : ~Mentions(response.entities[k], u)

\* the part that holds: the profiles lists of the returned entities are
\* free of private urls
C30_ProfilesListClean ==
  response.kind = "output" =>
    \A k \in 1..Len(response.entities) :
      \A i \in 1..Len(response.entities[k].profiles) :
        response.entities[k].profiles[i].url \notin PrivateUrls

====
